---- MODULE Spec2Model ----
(***************************************************************************)
(* Model of the TeX stack items (StackItem.ts part of util/Options.ts):    *)
(* the items of the parser stack, their reduction rules (checkItem) and    *)
(* the array assembly operations, together with the stack driver that      *)
(* presents every pushed item to the reduction rule of the top item.       *)
(***************************************************************************)
EXTENDS Integers, Sequences, FiniteSets, TLC

(***************************************************************************)
(* Bounds of the model.                                                    *)
(***************************************************************************)
MaxPush == 4
MaxBrace == 7
MaxOver == 5
MaxArr == 12
MaxCells == 4
MaxRows == 3
MaxLines == 4
MaxFedNodes == 2
MaxFedCols == 2
MaxFedRows == 2
MaxNodes == 3
MaxTop == 3
MaxElems == 2
MaxOffer == 4
MaxDefs == 2
MaxJax == 2
MaxEdits == 1

(***************************************************************************)
(* Tree nodes (MmlNode).  A node has a type, an ordered list of children   *)
(* and an attribute record.                                                *)
(***************************************************************************)
createNode(kind, children, def) == [type |-> kind, kids |-> children, attr |-> def]

NoAttr == [none |-> TRUE]

Undef == createNode("undefined", <<>>, NoAttr)

\* a text node and the token nodes (mi, mo, mtext) that hold one
TextNode(chars) == createNode("text", <<>>, [text |-> chars])

Token(kind, chars, texClass, id) ==
  createNode(kind, <<TextNode(chars)>>, [id |-> id, texClass |-> texClass])

Leaf(id) == Token("mi", <<"x">>, 0, id)

HasAttr(node, key) == key \in DOMAIN node.attr

\* TreeHelper.setAttribute / setProperties: one more entry in the attributes
setAttribute(node, key, value) ==
  [node EXCEPT !.attr = [k \in (DOMAIN node.attr) \cup {key} |->
                           IF k = key THEN value ELSE node.attr[k]]]

\* TreeHelper.getText: the characters of the text children
RECURSIVE TextOf(_)
TextOf(kids) ==
  IF Len(kids) = 0 THEN <<>>
  ELSE (IF kids[1].type = "text" THEN kids[1].attr.text ELSE <<>>) \o TextOf(Tail(kids))

getText(node) == TextOf(node.kids)

\* TreeHelper.isEmbellished / getCoreMO / getTexClass on token nodes
isEmbellished(node) == node.type = "mo"

getCoreMO(node) == node

TEXCLASS == [ORD |-> 0, OP |-> 1, BIN |-> 2, REL |-> 3, OPEN |-> 4, CLOSE |-> 5,
             PUNCT |-> 6, INNER |-> 7, VCENTER |-> 8, NONE |-> (0 - 1)]

getTexClass(node) == IF HasAttr(node, "texClass") THEN node.attr.texClass ELSE TEXCLASS.NONE

isType(node, kind) == node.type = kind

\* TreeHelper.setData(node, position, child): child written at slot position
setData(node, pos, child) ==
  [node EXCEPT !.kids = [i \in 1..Len(node.kids) |-> IF i = pos + 1 THEN child ELSE node.kids[i]]]

\* a combined script node with a base and two empty slots (sub = 1, sup = 2)
Msubsup(base) == createNode("msubsup", <<base, Undef, Undef>>, NoAttr)

\* TreeHelper.cleanSubSup: a script node with an empty slot loses that slot
cleanSubSup(node) ==
  IF node.type = "msubsup" /\ Len(node.kids) = 3
  THEN IF node.kids[2] = Undef /\ node.kids[3] = Undef THEN node.kids[1]
       ELSE IF node.kids[2] = Undef THEN createNode("msup", <<node.kids[1], node.kids[3]>>, node.attr)
       ELSE IF node.kids[3] = Undef THEN createNode("msub", <<node.kids[1], node.kids[2]>>, node.attr)
       ELSE node
  ELSE node

\* ParserUtil.fenced / fixedFence: the node between two delimiters
fenced(open, mml, close) ==
  createNode("mrow", <<mml>>, [open |-> open, close |-> close])

(***************************************************************************)
(* Strings of space-separated entries (arraydef rowlines, rowspacing).     *)
(* A string is a sequence of characters; a word such as "solid" stands     *)
(* for its characters, SP is the space.                                    *)
(***************************************************************************)
SP == " "

RECURSIVE SplitFrom(_, _, _)
SplitFrom(s, i, cur) ==
  IF i > Len(s) THEN <<cur>>
  ELSE IF s[i] = SP THEN <<cur>> \o SplitFrom(s, i + 1, <<>>)
  ELSE SplitFrom(s, i + 1, Append(cur, s[i]))

\* String.prototype.split(/ /): never empty, "" gives one empty entry
Split(s) == SplitFrom(s, 1, <<>>)

RECURSIVE Join(_)
Join(lines) ==
  IF Len(lines) = 0 THEN <<>>
  ELSE IF Len(lines) = 1 THEN lines[1]
  ELSE lines[1] \o <<SP>> \o Join(Tail(lines))

\* array.pop(): the list without its last element
Pop(list) == IF Len(list) = 0 THEN list ELSE SubSeq(list, 1, Len(list) - 1)

RECURSIVE StripSpaces(_)
StripSpaces(s) ==
  IF Len(s) > 0 /\ s[Len(s)] = SP THEN StripSpaces(Pop(s)) ELSE s

\* s.replace(/none( none) + $/, 'none')
ReplaceNoneTail(s) ==
  LET t == StripSpaces(s)
      n == Len(t)
  IN IF Len(s) > n /\ n >= 3 /\ SubSeq(t, n - 2, n) = <<"none", SP, "none">>
     THEN SubSeq(t, 1, n - 3) \o <<"none">>
     ELSE s

(***************************************************************************)
(* Errors (TexError): a key and the arguments of the message.              *)
(***************************************************************************)
TexError(key, args) == [key |-> key, args |-> args]

NoError == TexError("", <<>>)

Undefined == "undefined"

(***************************************************************************)
(* Stack items.  Every item is a record with the fields of BaseItem, the   *)
(* properties the item classes read (getProperty) and the ArrayItem        *)
(* fields.  "" / <<>> / 0 / FALSE / Undef stand for an unset property.     *)
(***************************************************************************)
ArrayDef == [rowlines |-> <<>>, columnlines |-> <<>>, rowspacing |-> <<>>, scriptlevel |-> 0]

BaseItem(kind) ==
  [kind |-> kind, data |-> <<>>,
   hasEnv |-> kind \in {"start", "open", "left", "begin", "array"}, env |-> {},
   name |-> IF kind = "over" THEN "\\over" ELSE Undefined,
   delim |-> IF kind = "left" THEN "(" ELSE IF kind = "right" THEN ")" ELSE Undefined,
   num |-> Undef, position |-> 0, primes |-> Undef, movesupsub |-> Undefined,
   thickness |-> Undefined, open |-> "", close |-> "", end |-> FALSE,
   styles |-> NoAttr, move |-> Undefined, dh |-> Undefined, dd |-> Undefined,
   left |-> Undef, right |-> Undef,
   linebreak |-> FALSE, isEntry |-> FALSE, isCR |-> FALSE,
   requireClose |-> FALSE, isNumbered |-> FALSE, rowspacing |-> <<>>,
   ldots |-> Undef, cdots |-> Undef,
   table |-> <<>>, row |-> <<>>, frame |-> <<>>, hfill |-> <<>>,
   arraydef |-> ArrayDef, dashed |-> FALSE]

\* factory.create('mml', node)
MmlItem(node) == [BaseItem("mml") EXCEPT !.data = <<node>>]

isOpen(item) == item.kind \in {"start", "open", "left", "begin", "array"}

isClose(item) == item.kind \in {"stop", "close", "over", "right", "end", "cell"}

\* isFinal answering true for every item that holds nodes
isFinalWithNodes(item) == item.kind = "mml" \/ Len(item.data) > 0

isFinal(item) == item.kind = "mml"

isKind(item, kind) == kind = item.kind

getName(item) == item.name

\* errors without the closeError entry
errorsNoClose(kind, key) ==
  CASE key = "end" -> "ExtraOpenMissingClose"
    [] key = "right" -> "MissingLeftExtraRight"
    [] key = "stop" /\ kind = "open" -> "ExtraOpenMissingClose"
    [] key = "stop" /\ kind = "left" -> "ExtraLeftMissingRight"
    [] key = "stop" /\ kind = "subsup" -> "MissingScript"
    [] key = "sup" /\ kind = "subsup" -> "MissingOpenForSup"
    [] key = "sub" /\ kind = "subsup" -> "MissingOpenForSub"
    [] OTHER -> ""

\* this.errors[key + 'Error'] of an item of the given kind ("" when absent)
errors(kind, key) ==
  CASE key = "end" -> "ExtraOpenMissingClose"
    [] key = "close" -> "ExtraCloseMissingOpen"
    [] key = "right" -> "MissingLeftExtraRight"
    [] key = "stop" /\ kind = "open" -> "ExtraOpenMissingClose"
    [] key = "stop" /\ kind = "left" -> "ExtraLeftMissingRight"
    [] key = "stop" /\ kind = "subsup" -> "MissingScript"
    [] key = "sup" /\ kind = "subsup" -> "MissingOpenForSup"
    [] key = "sub" /\ kind = "subsup" -> "MissingOpenForSub"
    [] OTHER -> ""

\* Push putting the nodes in front of the nodes the item holds
PushFront(item, nodes) == [item EXCEPT !.data = nodes \o item.data]

Push(item, nodes) == [item EXCEPT !.data = item.data \o nodes]

\* the first node of data, undefined when data is empty
Data0(item) == IF Len(item.data) > 0 THEN item.data[1] ELSE Undef

Data1(item) == IF Len(item.data) > 1 THEN item.data[2] ELSE Undef

toMml(item, inferred, forceRow) ==
  IF Len(item.data) = 1 /\ ~forceRow THEN item.data[1]
  ELSE createNode(IF inferred THEN "inferredMrow" ELSE "mrow", item.data, NoAttr)

(***************************************************************************)
(* Outcomes of a reduction (CheckType): true, false, one replacement       *)
(* item, a list of nodes and items, nothing (undefined) or a thrown error. *)
(* this / item are the top item and the incoming item after the call.      *)
(***************************************************************************)
Outcome(tag, list, err, this, item) ==
  [tag |-> tag, list |-> list, err |-> err, this |-> this, item |-> item]

RetTrue(this, item) == Outcome("true", <<>>, NoError, this, item)
RetFalse(this, item) == Outcome("false", <<>>, NoError, this, item)
RetItem(new, this, item) == Outcome("item", <<new>>, NoError, this, item)
RetList(list, this, item) == Outcome("list", list, NoError, this, item)
RetUndefined(this, item) == Outcome("undefined", <<>>, NoError, this, item)
Throw(key, args, this, item) == Outcome("error", <<>>, TexError(key, args), this, item)

\* the base rule raising Misplaced for line-break cells as well
BaseCheckRestNoLinebreak(this, item) ==
  IF isKind(item, "cell") /\ isOpen(this)
  THEN Throw("Misplaced", <<getName(item)>>, this, item)
  ELSE IF isClose(item) /\ errors(this.kind, item.kind) # ""
  THEN Throw(errors(this.kind, item.kind), <<>>, this, item)
  ELSE IF ~isFinal(item) THEN RetTrue(this, item)
  ELSE RetFalse(Push(this, <<Data0(item)>>), item)

\* BaseItem.checkItem after the numerator of an over item has been taken
BaseCheckRest(this, item) ==
  IF isKind(item, "cell") /\ isOpen(this)
  THEN IF item.linebreak THEN RetFalse(this, item)
       ELSE Throw("Misplaced", <<getName(item)>>, this, item)
  ELSE IF isClose(item) /\ errors(this.kind, item.kind) # ""
  THEN Throw(errors(this.kind, item.kind), <<>>, this, item)
  ELSE IF ~isFinal(item) THEN RetTrue(this, item)
  ELSE RetFalse(Push(this, <<Data0(item)>>), item)

\* BaseItem.checkItem handing over the numerator without clearing data
BaseCheckItemKeepsData(this, item) ==
  IF isKind(item, "over") /\ isOpen(this)
  THEN BaseCheckRest(this, [item EXCEPT !.num = toMml(this, FALSE, FALSE)])
  ELSE BaseCheckRest(this, item)

\* BaseItem.checkItem
BaseCheckItem(this, item) ==
  IF isKind(item, "over") /\ isOpen(this)
  THEN BaseCheckRest([this EXCEPT !.data = <<>>],
                     [item EXCEPT !.num = toMml(this, FALSE, FALSE)])
  ELSE BaseCheckRest(this, item)

\* StartItem.checkItem handing the stop item on after the tree
StartCheckItemKeepsStop(this, item) ==
  IF isKind(item, "stop")
  THEN RetList(<<MmlItem(toMml(this, TRUE, FALSE)), item>>, this, item)
  ELSE BaseCheckItem(this, item)

StartCheckItem(this, item) ==
  IF isKind(item, "stop") THEN RetItem(MmlItem(toMml(this, TRUE, FALSE)), this, item)
  ELSE BaseCheckItem(this, item)

\* OpenItem.checkItem handing the close item on after the group
OpenCheckItemKeepsClose(this, item) ==
  IF isKind(item, "close")
  THEN RetList(<<MmlItem(createNode("TeXAtom", <<cleanSubSup(toMml(this, TRUE, FALSE))>>,
                                    NoAttr)), item>>, this, item)
  ELSE BaseCheckItem(this, item)

OpenCheckItem(this, item) ==
  IF isKind(item, "close")
  THEN LET mml == cleanSubSup(toMml(this, TRUE, FALSE))
           node == createNode("TeXAtom", <<mml>>, NoAttr)
       IN RetItem(MmlItem(node), this, item)
  ELSE BaseCheckItem(this, item)

\* PrimeItem.checkItem wrapping every base in a new superscript node
PrimeCheckItemAlwaysWraps(this, item) ==
  RetList(<<createNode("msup", <<Data0(this), Data1(this)>>, NoAttr), item>>, this, item)

PrimeCheckItem(this, item) ==
  IF ~isType(Data0(this), "msubsup")
  THEN RetList(<<createNode("msup", <<Data0(this), Data1(this)>>, NoAttr), item>>, this, item)
  ELSE LET base == setData(this.data[1], 2, Data1(this))
       IN RetList(<<base, item>>, [this EXCEPT !.data[1] = base], item)

\* the error SubsupItem.checkItem looks up by position: ['', 'subError', 'supError']
\* the error table indexed from zero: sub = 0, sup = 1
PositionErrorZeroBased(position) ==
  CASE position = 0 -> errors("subsup", "sub")
    [] position = 1 -> errors("subsup", "sup")
    [] OTHER -> Undefined

PositionError(position) ==
  CASE position = 1 -> errors("subsup", "sub")
    [] position = 2 -> errors("subsup", "sup")
    [] OTHER -> Undefined

\* the script of a subsup item: the incoming node, after the recorded primes
SubsupScript(this, item) ==
  IF this.primes # Undef /\ this.position = 2
  THEN createNode("mrow", <<setAttribute(this.primes, "variantForm", TRUE), Data0(item)>>,
                  NoAttr)
  ELSE Data0(item)

\* the base of a subsup item with the recorded primes written into slot 2
SubsupBase(this) ==
  IF this.primes # Undef /\ this.position # 2
  THEN setData(Data0(this), 2, this.primes) ELSE Data0(this)

SubsupFill(this, item, base, arg) ==
  RetItem(MmlItem(base), [this EXCEPT !.data = <<base>> \o Tail(this.data)],
          [item EXCEPT !.data[1] = arg])

SubsupMove(this, base) ==
  IF this.movesupsub # Undefined THEN setAttribute(base, "movesupsub", this.movesupsub)
  ELSE base

\* if (super.checkItem(item)) throw ...: nothing is returned otherwise
SubsupAfterBase(sup, position) ==
  IF sup.tag = "error" THEN sup
  ELSE IF sup.tag = "true" THEN Throw(PositionError(position), <<>>, sup.this, sup.item)
  ELSE RetUndefined(sup.this, sup.item)

SubsupCheckItem(this, item) ==
  IF isKind(item, "open") \/ isKind(item, "left") THEN RetTrue(this, item)
  ELSE IF isKind(item, "mml")
  THEN SubsupFill(this, item,
         SubsupMove(this, setData(SubsupBase(this), this.position, SubsupScript(this, item))),
         SubsupScript(this, item))
  ELSE SubsupAfterBase(BaseCheckItem(this, item), this.position)

OverThickness(this, frac) ==
  IF this.thickness # Undefined THEN setAttribute(frac, "linethickness", this.thickness)
  ELSE frac

\* the fraction left without its delimiters
OverFenceNone(this, frac) == frac

OverFence(this, frac) ==
  IF this.open # "" \/ this.close # ""
  THEN fenced(this.open, setAttribute(frac, "withDelims", TRUE), this.close)
  ELSE frac

\* OverItem.checkItem treating a second over item as any closing item
OverCheckItemNoAmbiguity(this, item) ==
  IF isClose(item)
  THEN RetList(<<MmlItem(OverFence(this,
                    OverThickness(this,
                      createNode("mfrac", <<this.num, toMml(this, FALSE, FALSE)>>, NoAttr)))),
                 item>>, this, item)
  ELSE BaseCheckItem(this, item)

OverCheckItem(this, item) ==
  IF isKind(item, "over") THEN Throw("AmbiguousUseOf", <<getName(item)>>, this, item)
  ELSE IF isClose(item)
  THEN RetList(<<MmlItem(OverFence(this,
                    OverThickness(this,
                      createNode("mfrac", <<this.num, toMml(this, FALSE, FALSE)>>, NoAttr)))),
                 item>>, this, item)
  ELSE BaseCheckItem(this, item)

\* LeftItem.checkItem closing the fence with its own delimiter
LeftCheckItemOwnDelim(this, item) ==
  IF isKind(item, "right")
  THEN RetItem(MmlItem(fenced(this.delim, toMml(this, TRUE, FALSE), this.delim)), this, item)
  ELSE BaseCheckItem(this, item)

LeftCheckItem(this, item) ==
  IF isKind(item, "right")
  THEN RetItem(MmlItem(fenced(this.delim, toMml(this, TRUE, FALSE), item.delim)), this, item)
  ELSE BaseCheckItem(this, item)

Lower(nm) == IF nm = "A" THEN "a" ELSE nm

\* BeginItem.checkItem comparing the names without regard to case
BeginCheckItemAnyCase(this, item) ==
  IF isKind(item, "end")
  THEN IF Lower(getName(item)) # Lower(getName(this))
       THEN Throw("EnvBadEnd", <<getName(this), getName(item)>>, this, item)
       ELSE IF ~this.end THEN RetItem(MmlItem(toMml(this, TRUE, FALSE)), this, item)
       ELSE RetUndefined(this, item)
  ELSE IF isKind(item, "stop") THEN Throw("EnvMissingEnd", <<getName(this)>>, this, item)
  ELSE BaseCheckItem(this, item)

BeginCheckItem(this, item) ==
  IF isKind(item, "end")
  THEN IF getName(item) # getName(this)
       THEN Throw("EnvBadEnd", <<getName(this), getName(item)>>, this, item)
       ELSE IF ~this.end THEN RetItem(MmlItem(toMml(this, TRUE, FALSE)), this, item)
       ELSE RetUndefined(this, item)
  ELSE IF isKind(item, "stop") THEN Throw("EnvMissingEnd", <<getName(this)>>, this, item)
  ELSE BaseCheckItem(this, item)

StyleCheckItem(this, item) ==
  IF ~isClose(item) THEN BaseCheckItem(this, item)
  ELSE RetList(<<MmlItem(createNode("mstyle", this.data, this.styles)), item>>, this, item)

\* PositionItem.checkItem emitting the content before the two fillers
PositionCheckItemContentFirst(this, item) ==
  IF isClose(item) THEN Throw("MissingBoxFor", <<getName(this)>>, this, item)
  ELSE IF isFinal(item) /\ this.move = "vertical"
  THEN RetList(<<MmlItem(createNode("mpadded", <<toMml(item, TRUE, FALSE)>>,
                   [height |-> this.dh, depth |-> this.dd, voffset |-> this.dh]))>>, this, item)
  ELSE IF isFinal(item) /\ this.move = "horizontal"
  THEN RetList(<<item, MmlItem(this.left), MmlItem(this.right)>>, this, item)
  ELSE BaseCheckItem(this, item)

PositionCheckItem(this, item) ==
  IF isClose(item) THEN Throw("MissingBoxFor", <<getName(this)>>, this, item)
  ELSE IF isFinal(item) /\ this.move = "vertical"
  THEN RetList(<<MmlItem(createNode("mpadded", <<toMml(item, TRUE, FALSE)>>,
                   [height |-> this.dh, depth |-> this.dd, voffset |-> this.dh]))>>, this, item)
  ELSE IF isFinal(item) /\ this.move = "horizontal"
  THEN RetList(<<MmlItem(this.left), item, MmlItem(this.right)>>, this, item)
  ELSE BaseCheckItem(this, item)

(***************************************************************************)
(* ArrayItem: entry -> row -> table assembly.                              *)
(***************************************************************************)
\* hfill[0] === 0: a leading fill aligns the cell right
AlignRight(this, mtd) ==
  IF Len(this.hfill) > 0 /\ this.hfill[1] = 0
  THEN setAttribute(mtd, "columnalign", "right") ELSE mtd

\* a trailing fill aligns the cell left, or center after a leading fill
AlignLeft(this, mtd) ==
  IF Len(this.hfill) > 0 /\ this.hfill[Len(this.hfill)] = Len(this.data)
  THEN setAttribute(mtd, "columnalign",
                    IF HasAttr(mtd, "columnalign") THEN "center" ELSE "left")
  ELSE mtd

EndEntry(this) ==
  [this EXCEPT !.row = Append(this.row,
                              AlignLeft(this, AlignRight(this, createNode("mtd", this.data, NoAttr)))),
               !.data = <<>>, !.hfill = <<>>]

\* row.unshift(row.pop()): the last element moved to the front
UnshiftPop(row) == IF Len(row) = 0 THEN row ELSE <<row[Len(row)]>> \o Pop(row)

\* EndRow labelling any numbered row of at least three cells
EndRowFromThree(this) ==
  [this EXCEPT !.table = Append(this.table,
                                IF this.isNumbered /\ Len(this.row) >= 3
                                THEN createNode("mlabeledtr", UnshiftPop(this.row), NoAttr)
                                ELSE createNode("mtr", this.row, NoAttr)),
               !.row = <<>>]

EndRow(this) ==
  [this EXCEPT !.table = Append(this.table,
                                IF this.isNumbered /\ Len(this.row) = 3
                                THEN createNode("mlabeledtr", UnshiftPop(this.row), NoAttr)
                                ELSE createNode("mtr", this.row, NoAttr)),
               !.row = <<>>]

\* checkRowLines padding whenever the spec is shorter than the number of rows
checkRowLinesShort(this, lines) ==
  IF this.arraydef.rowlines # <<>>
  THEN IF Len(lines) = Len(this.table)
       THEN [this EXCEPT !.frame = Append(this.frame, "bottom"),
                         !.arraydef.rowlines = Join(Pop(lines))]
       ELSE IF Len(lines) < Len(this.table)
       THEN [this EXCEPT !.arraydef.rowlines = this.arraydef.rowlines \o <<SP, "none">>]
       ELSE this
  ELSE this

\* checkLines, first part: the row-line spec against the number of rows
checkRowLines(this, lines) ==
  IF this.arraydef.rowlines # <<>>
  THEN IF Len(lines) = Len(this.table)
       THEN [this EXCEPT !.frame = Append(this.frame, "bottom"),
                         !.arraydef.rowlines = Join(Pop(lines))]
       ELSE IF Len(lines) < Len(this.table) - 1
       THEN [this EXCEPT !.arraydef.rowlines = this.arraydef.rowlines \o <<SP, "none">>]
       ELSE this
  ELSE this

\* while (rows.length < table.length) rows.push(rowspacing + 'em')
RECURSIVE PadRows(_, _, _)
PadRows(rows, n, entry) ==
  IF Len(rows) < n THEN PadRows(Append(rows, entry), n, entry) ELSE rows

\* checkLines, second part: the row spacing padded to the number of rows
checkRowSpacing(this) ==
  IF this.rowspacing # <<>>
  THEN [this EXCEPT !.arraydef.rowspacing =
          Join(PadRows(Split(this.arraydef.rowspacing), Len(this.table),
                       this.rowspacing \o <<"em">>))]
  ELSE this

checkLines(this) == checkRowSpacing(checkRowLines(this, Split(this.arraydef.rowlines)))

\* EndTable flushing a row even when nothing is pending
EndTableAlways(this) == checkLines(EndRow(EndEntry(this)))

EndTable(this) ==
  checkLines(IF Len(this.data) > 0 \/ Len(this.row) > 0 THEN EndRow(EndEntry(this)) ELSE this)

\* clearEnv deleting nothing
clearEnvKeepsAll(this) == this

clearEnv(this) == [this EXCEPT !.env = {}]

\* frame.join(' ')
Words(list) == Join([i \in 1..Len(list) |-> <<list[i]>>])

NotNone(s) == s # <<>> /\ s # <<"none">>

\* delete arraydef.scriptlevel, and the row lines rewritten under a partial frame
ArrayTrim(this) ==
  [this EXCEPT !.arraydef.scriptlevel = 0,
               !.arraydef.rowlines =
                  IF Len(this.frame) # 4 /\ Len(this.frame) > 0
                  THEN ReplaceNoneTail(this.arraydef.rowlines) ELSE this.arraydef.rowlines]

TableNode(this) ==
  createNode("mtable", this.table, [this.arraydef EXCEPT !.scriptlevel = 0])

TablePadding(this, enc) ==
  IF NotNone(this.arraydef.columnlines) \/ NotNone(this.arraydef.rowlines)
  THEN setAttribute(enc, "padding", 0) ELSE enc

TableFrame(this, table) ==
  IF Len(this.frame) = 4
  THEN setAttribute(table, "frame", IF this.dashed THEN "dashed" ELSE "solid")
  ELSE IF Len(this.frame) > 0
  THEN TablePadding(ArrayTrim(this),
                    createNode("menclose", <<table>>,
                               [notation |-> Words(this.frame), isFrame |-> TRUE]))
  ELSE table

TableStyle(this, mml) ==
  IF this.arraydef.scriptlevel # 0
  THEN createNode("mstyle", <<mml>>, [scriptlevel |-> this.arraydef.scriptlevel])
  ELSE mml

TableFence(this, mml) ==
  IF this.open # "" \/ this.close # "" THEN fenced(this.open, mml, this.close) ELSE mml

\* the table handed on together with the close item it required
ArrayReturnKeepsClose(this, item, newItem) ==
  IF this.requireClose /\ ~isKind(item, "close")
  THEN Throw("MissingCloseBrace", <<>>, this, item)
  ELSE RetList(<<newItem, item>>, this, item)

ArrayReturn(this, item, newItem) ==
  IF this.requireClose
  THEN IF isKind(item, "close") THEN RetItem(newItem, this, item)
       ELSE Throw("MissingCloseBrace", <<>>, this, item)
  ELSE RetList(<<newItem, item>>, this, item)

\* ArrayItem.checkItem for a closing item that ends the table (after EndTable, clearEnv)
ArrayClose(this, item) ==
  ArrayReturn(ArrayTrim(this), item,
              MmlItem(TableFence(this, TableStyle(this, TableFrame(this, TableNode(this))))))

ArrayCheckItem(this, item) ==
  IF isClose(item) /\ ~isKind(item, "over")
  THEN IF item.isEntry THEN RetFalse(clearEnv(EndEntry(this)), item)
       ELSE IF item.isCR THEN RetFalse(clearEnv(EndRow(EndEntry(this))), item)
       ELSE ArrayClose(clearEnv(EndTable(this)), item)
  ELSE BaseCheckItem(this, item)

(***************************************************************************)
(* fn, not and dots items.                                                 *)
(***************************************************************************)
ApplyFunction == createNode("mo", <<TextNode(<<"ApplyFunction">>)>>, [texClass |-> TEXCLASS.NONE])

\* [0, 0, 1, 1, 0, 1, 1, 0, 0, 0][texClass]
IsOperatorClass(texClass) == texClass \in {2, 3, 5, 6}

\* the incoming item of an fn item needs no function-application marker
FnPlain(item, mml) ==
  /\ ~isKind(item, "fn")
  /\ \/ ~isKind(item, "mml")
     \/ mml = Undef
     \/ isType(mml, "mspace")
     \/ IsOperatorClass(getTexClass(IF isEmbellished(mml) THEN getCoreMO(mml) ELSE mml))

FnCheckItem(this, item) ==
  IF Data0(this) # Undef
  THEN IF isOpen(item) THEN RetTrue(this, item)
       ELSE IF FnPlain(item, Data0(item)) THEN RetList(<<Data0(this), item>>, this, item)
       ELSE RetList(<<Data0(this), ApplyFunction, item>>, this, item)
  ELSE BaseCheckItem(this, item)

\* the characters the not_remap table holds, and what each is mapped to
NotRemap == [c \in {"="} |-> "notequal"]

NotBig ==
  createNode("TeXAtom",
    <<createNode("mpadded", <<createNode("mtext", <<TextNode(<<"bigslash">>)>>, NoAttr)>>,
                 [width |-> 0])>>,
    [texClass |-> TEXCLASS.REL])

\* the single character c of a token remapped, or struck through
Negate(mml, c) ==
  IF c \in DOMAIN NotRemap THEN setData(mml, 0, TextNode(<<NotRemap[c]>>))
  ELSE [mml EXCEPT !.kids = Append(mml.kids, TextNode(<<"slash">>))]

NotReturn(this, item) == RetItem(item, this, item)

NotCheckItem(this, item) ==
  IF isKind(item, "open") \/ isKind(item, "left") THEN RetTrue(this, item)
  ELSE IF isKind(item, "mml") /\ Data0(item).type \in {"mo", "mi", "mtext"}
          /\ Len(getText(Data0(item))) = 1 /\ ~HasAttr(Data0(item), "movesupsub")
          /\ Len(Data0(item).kids) = 1
  THEN NotReturn(this, [item EXCEPT !.data[1] = Negate(Data0(item), getText(Data0(item))[1])])
  ELSE RetList(<<NotBig, item>>, this, item)

DotsCheckItem(this, item) ==
  IF isKind(item, "open") \/ isKind(item, "left") THEN RetTrue(this, item)
  ELSE RetList(<<IF isKind(item, "mml") /\ isEmbellished(Data0(item))
                     /\ getTexClass(getCoreMO(Data0(item))) \in {TEXCLASS.BIN, TEXCLASS.REL}
                  THEN this.cdots ELSE this.ldots,
                  item>>, this, item)

\* the reduction rule of the top item, by its kind
checkItem(this, item) ==
  CASE this.kind = "start" -> StartCheckItem(this, item)
    [] this.kind = "open" -> OpenCheckItem(this, item)
    [] this.kind = "prime" -> PrimeCheckItem(this, item)
    [] this.kind = "subsup" -> SubsupCheckItem(this, item)
    [] this.kind = "over" -> OverCheckItem(this, item)
    [] this.kind = "left" -> LeftCheckItem(this, item)
    [] this.kind = "begin" -> BeginCheckItem(this, item)
    [] this.kind = "style" -> StyleCheckItem(this, item)
    [] this.kind = "position" -> PositionCheckItem(this, item)
    [] this.kind = "array" -> ArrayCheckItem(this, item)
    [] this.kind = "fn" -> FnCheckItem(this, item)
    [] this.kind = "not" -> NotCheckItem(this, item)
    [] this.kind = "dots" -> DotsCheckItem(this, item)
    [] OTHER -> BaseCheckItem(this, item)

(***************************************************************************)
(* The stack driver.  A pushed item is presented to the reduction rule of  *)
(* the top item; a replacement removes the top item and pushes the         *)
(* returned nodes and items in order, before the rest of the queue.        *)
(***************************************************************************)
IsNode(e) == "type" \in DOMAIN e

ReplaceTop(st, this) == [st EXCEPT ![Len(st)] = this]

\* a node of the queue is wrapped as an mml item
AsItem(e) == IF IsNode(e) THEN MmlItem(e) ELSE e

RECURSIVE PushAll(_, _)

\* what the driver does with the outcome of the top item's reduction rule
Dispatch(st, rest, out) ==
  CASE out.tag = "error" -> [stack |-> st, err |-> out.err]
    [] out.tag \in {"list", "item"} -> PushAll(Pop(st), out.list \o rest)
    [] out.tag = "true" -> PushAll(Append(ReplaceTop(st, out.this), out.item), rest)
    [] OTHER -> PushAll(ReplaceTop(st, out.this), rest)

PushAll(st, queue) ==
  IF Len(queue) = 0 THEN [stack |-> st, err |-> NoError]
  ELSE IF Head(queue) = Undef THEN PushAll(st, Tail(queue))
  ELSE IF Len(st) = 0 THEN PushAll(<<AsItem(Head(queue))>>, Tail(queue))
  ELSE Dispatch(st, Tail(queue), checkItem(st[Len(st)], AsItem(Head(queue))))

VARIABLES stack, err, status, input, queue, cTop, cItem, cOut, cOp

pvars == <<stack, err, status, input, queue>>

cvars == <<cTop, cItem, cOut, cOp>>

vars == <<stack, err, status, input, queue, cTop, cItem, cOut, cOp>>

\* the result of a push becomes the state of the parse
Commit(r, item) ==
  /\ stack' = r.stack
  /\ err' = r.err
  /\ status' = IF r.err # NoError THEN "error"
               ELSE IF item.kind = "stop" THEN "done" ELSE "run"
  /\ queue' = <<>>

\* one push of the driver: the item, the tag recorded for it, the push bound
DoPush(item, tag, max) ==
  /\ status = "run"
  /\ Len(input) < max
  /\ (Len(input) = 0) = (item.kind = "start")
  /\ Commit(PushAll(stack, <<item>>), item)
  /\ input' = Append(input, tag)
  /\ UNCHANGED cvars

\* the identity of the next node the driver creates
NextId == Len(input) + 1

(***************************************************************************)
(* The items the parser creates and pushes, one action per kind.           *)
(***************************************************************************)
Tokens == {[type |-> "mi", chars |-> <<"x">>, cls |-> TEXCLASS.ORD],
           [type |-> "mo", chars |-> <<"=">>, cls |-> TEXCLASS.REL]}

Identifiers == {[type |-> "mi", chars |-> <<"x">>, cls |-> TEXCLASS.ORD]}

EnvNames == {"a", "A"}

LeftDelims == {"(", "["}

RightDelims == {")", "]"}

CellFlags == {"isEntry", "isCR", "linebreak", "cell"}

NewMml(t, id) == MmlItem(Token(t.type, t.chars, t.cls, id))

NewLeft(d) == [BaseItem("left") EXCEPT !.delim = d]

NewRight(d) == [BaseItem("right") EXCEPT !.delim = d]

NewBegin(nm, e) == [BaseItem("begin") EXCEPT !.name = nm, !.end = e]

NewEnd(nm) == [BaseItem("end") EXCEPT !.name = nm]

NewSubsup(pos, id) ==
  [BaseItem("subsup") EXCEPT !.data = <<Msubsup(Leaf(id))>>, !.position = pos]

NewPrime(base, id) ==
  [BaseItem("prime") EXCEPT !.data = <<base, Token("mo", <<"prime">>, TEXCLASS.ORD, id)>>]

NewStyle == [BaseItem("style") EXCEPT !.styles = [displaystyle |-> TRUE]]

NewPosition(mv, id) ==
  [BaseItem("position") EXCEPT
     !.name = "\\move", !.move = mv, !.dh = "1em", !.dd = "0em",
     !.left = createNode("mspace", <<>>, [width |-> "1em", id |-> id]),
     !.right = createNode("mspace", <<>>, [width |-> "-1em", id |-> id])]

NewArray(req, num, lines) ==
  [BaseItem("array") EXCEPT !.requireClose = req, !.isNumbered = num,
                            !.arraydef.rowlines = lines]

NewCell(f) ==
  [BaseItem("cell") EXCEPT !.name = "&", !.isEntry = (f = "isEntry"),
                           !.isCR = (f = "isCR"), !.linebreak = (f = "linebreak")]

NewFn(id) == [BaseItem("fn") EXCEPT !.data = <<Leaf(id)>>]

NewDots(id) ==
  [BaseItem("dots") EXCEPT !.ldots = Token("mo", <<"ldots">>, TEXCLASS.INNER, id),
                           !.cdots = Token("mo", <<"cdots">>, TEXCLASS.INNER, id)]

PushStart(max) == DoPush(BaseItem("start"), "start", max)

PushStop(max) == DoPush(BaseItem("stop"), "stop", max)

PushOpen(max) == DoPush(BaseItem("open"), "open", max)

PushClose(max) == DoPush(BaseItem("close"), "close", max)

PushMml(max, toks) == \E t \in toks : DoPush(NewMml(t, NextId), "mml", max)

PushLeft(max) == \E d \in LeftDelims : DoPush(NewLeft(d), d, max)

PushRight(max) == \E d \in RightDelims : DoPush(NewRight(d), d, max)

PushBegin(max) == \E nm \in EnvNames, e \in BOOLEAN : DoPush(NewBegin(nm, e), "begin", max)

PushEnd(max) == \E nm \in EnvNames : DoPush(NewEnd(nm), "end", max)

PushOver(max) == DoPush(BaseItem("over"), "over", max)

PushSubsup(max) == \E pos \in {1, 2} : DoPush(NewSubsup(pos, NextId), "subsup", max)

PushPrime(max) ==
  \E base \in {Leaf(NextId), Msubsup(Leaf(NextId))} :
    DoPush(NewPrime(base, NextId), "prime", max)

PushStyle(max) == DoPush(NewStyle, "style", max)

PushPosition(max) ==
  \E mv \in {"vertical", "horizontal"} : DoPush(NewPosition(mv, NextId), "position", max)

PushArray(max, opts) ==
  \E o \in opts : DoPush(NewArray(o.requireClose, o.isNumbered, o.rowlines), "array", max)

PushCell(max, flags) == \E f \in flags : DoPush(NewCell(f), f, max)

PushFn(max) == DoPush(NewFn(NextId), "fn", max)

PushNot(max) == DoPush(BaseItem("not"), "not", max)

PushDots(max) == DoPush(NewDots(NextId), "dots", max)

(***************************************************************************)
(* Specifications.                                                         *)
(***************************************************************************)
NoItem == BaseItem("none")

PInit ==
  /\ stack = <<>>
  /\ err = NoError
  /\ status = "run"
  /\ input = <<>>
  /\ queue = <<>>

CIdle ==
  /\ cTop = NoItem
  /\ cItem = NoItem
  /\ cOut = NoItem
  /\ cOp = "idle"

Init == PInit /\ CIdle

PlainArrays == {[requireClose |-> r, isNumbered |-> FALSE, rowlines |-> <<>>] : r \in BOOLEAN}

Next ==
  \/ PushStart(MaxPush)
  \/ PushStop(MaxPush)
  \/ PushOpen(MaxPush)
  \/ PushClose(MaxPush)
  \/ PushMml(MaxPush, Tokens)
  \/ PushLeft(MaxPush)
  \/ PushRight(MaxPush)
  \/ PushBegin(MaxPush)
  \/ PushEnd(MaxPush)
  \/ PushOver(MaxPush)
  \/ PushSubsup(MaxPush)
  \/ PushPrime(MaxPush)
  \/ PushStyle(MaxPush)
  \/ PushPosition(MaxPush)
  \/ PushArray(MaxPush, PlainArrays)
  \/ PushCell(MaxPush, CellFlags)
  \/ PushFn(MaxPush)
  \/ PushNot(MaxPush)
  \/ PushDots(MaxPush)

Spec == Init /\ [][Next]_vars

(***************************************************************************)
(* One reduction call on any top item and any incoming item.               *)
(***************************************************************************)
DataSets == {<<>>, <<Leaf(1)>>, <<Leaf(1), Leaf(2)>>}

WithData(items) == {[i EXCEPT !.data = d] : i \in items, d \in DataSets}

TopItems ==
  WithData({BaseItem("start"), BaseItem("open"), NewStyle, BaseItem("not"), NewDots(3),
            BaseItem("fn")}
           \cup {NewLeft(d) : d \in LeftDelims}
           \cup {NewBegin(nm, e) : nm \in EnvNames, e \in BOOLEAN}
           \cup {[BaseItem("over") EXCEPT !.num = n, !.thickness = th,
                                            !.open = d[1], !.close = d[2]] :
                   n \in {Undef, Leaf(3)}, th \in {Undefined, "0"},
                   d \in {<<"", "">>, <<"(", ")">>, <<"", ")">>}}
           \cup {NewPosition(mv, 3) : mv \in {"vertical", "horizontal"}}
           \cup {[NewArray(r, FALSE, l) EXCEPT !.row = w] :
                   r \in BOOLEAN, l \in {<<>>, <<"solid">>},
                   w \in {<<>>, <<createNode("mtd", <<Leaf(4)>>, NoAttr)>>}})
  \cup {BaseItem(k) : k \in {"stop", "close", "right", "end", "cell"}}
  \cup {MmlItem(Leaf(1))}
  \cup {NewPrime(b, 2) : b \in {Leaf(1), Msubsup(Leaf(1)),
                                 setData(Msubsup(Leaf(1)), 1, Leaf(5))}}
  \cup {[NewSubsup(pos, 1) EXCEPT !.primes = pr] :
          pos \in {0, 1, 2}, pr \in {Undef, Token("mo", <<"prime">>, TEXCLASS.ORD, 2)}}

IncomingItems ==
  {BaseItem(k) : k \in {"start", "stop", "open", "close", "over", "not"}}
  \cup {NewMml(t, 9) : t \in Tokens}
  \cup {NewLeft(d) : d \in LeftDelims} \cup {NewRight(d) : d \in RightDelims}
  \cup {NewBegin(nm, FALSE) : nm \in EnvNames} \cup {NewEnd(nm) : nm \in EnvNames}
  \cup {NewSubsup(1, 9), NewPrime(Leaf(8), 9), NewStyle, NewPosition("vertical", 9),
        NewArray(FALSE, FALSE, <<>>), NewFn(9), NewDots(9)}
  \cup {NewCell(f) : f \in CellFlags}

CInit ==
  /\ cTop \in TopItems
  /\ cItem \in IncomingItems
  /\ cOut = NoItem
  /\ cOp = "init"

\* the reduction rule of cTop is called with cItem
Reduce ==
  /\ cOp = "init"
  /\ cOut' = checkItem(cTop, cItem)
  /\ cOp' = "checkItem"
  /\ UNCHANGED <<cTop, cItem, pvars>>

InitCheck == PInit /\ CInit

SpecCheck == InitCheck /\ [][Reduce]_vars

(***************************************************************************)
(* Properties of a single reduction call (SpecCheck).                      *)
(***************************************************************************)
Reduced == cOp = "checkItem"

Raises(key, args) == cOut.tag = "error" /\ cOut.err = TexError(key, args)

\* C3: with a begin item on top, an end item of a different name (compared
\* case-sensitively) raises EnvBadEnd with both names, an end item of the same
\* name raises no error, and a stop item raises EnvMissingEnd with the name.
C3_BeginEnd ==
  (Reduced /\ cTop.kind = "begin") =>
    /\ (cItem.kind = "end" /\ cItem.name # cTop.name =>
          Raises("EnvBadEnd", <<cTop.name, cItem.name>>))
    /\ (cItem.kind = "end" /\ cItem.name = cTop.name => cOut.tag # "error")
    /\ (cItem.kind = "stop" => Raises("EnvMissingEnd", <<cTop.name>>))

C3_Witness ==
  /\ Reduced /\ cTop.kind = "begin" /\ cItem.kind = "end"
  /\ cTop.name = "a" /\ cItem.name = "A"
  /\ Raises("EnvBadEnd", <<"a", "A">>)

\* C6: every reduction call raises an error or returns true, false, one
\* replacement item or a list of items, never nothing.
C6_NeverUndefined ==
  Reduced => cOut.tag \in {"error", "true", "false", "item", "list"}

\* the closing bracket item that is the counterpart of an open item
Counterpart(this, item) ==
  \/ this.kind = "start" /\ item.kind = "stop"
  \/ this.kind = "open" /\ item.kind = "close"
  \/ this.kind = "left" /\ item.kind = "right"
  \/ this.kind = "begin" /\ item.kind = "end" /\ item.name = this.name
  \/ this.kind = "array" /\ item.kind = "close"

ClosingBracket(item) == item.kind \in {"stop", "close", "right", "end"}

\* C7 as stated: an open item that receives a closing bracket item other than
\* its own counterpart always raises an error.
C7_MismatchAlwaysError ==
  (Reduced /\ isOpen(cTop) /\ ClosingBracket(cItem) /\ ~Counterpart(cTop, cItem)) =>
    cOut.tag = "error"

\* C7 amended: the mismatch is an error for start, open, left, begin and for an
\* array that requires a close brace; an array that does not require one raises
\* no error for any closing bracket item: it returns its table followed by the
\* closing item, which is thereby presented to the item below.
C7_MismatchError ==
  (Reduced /\ isOpen(cTop) /\ ClosingBracket(cItem)) =>
    /\ (~Counterpart(cTop, cItem) /\ (cTop.kind = "array" => cTop.requireClose) =>
          cOut.tag = "error")
    /\ (cTop.kind = "array" /\ ~cTop.requireClose =>
          /\ cOut.tag = "list" /\ Len(cOut.list) = 2
          /\ cOut.list[1].kind = "mml" /\ cOut.list[2] = cItem)

C7_Witness ==
  /\ Reduced /\ cTop.kind = "left" /\ cItem.kind = "close"
  /\ cOut.tag = "error" /\ cOut.err.key = "ExtraCloseMissingOpen"

(***************************************************************************)
(* The array operations EndEntry, EndRow and EndTable on any array item.   *)
(***************************************************************************)
LineEntry(i) == IF i % 2 = 1 THEN <<"solid">> ELSE <<"dashed">>

\* a row-line spec of k entries, as the parser writes it
Lines(k) == Join([i \in 1..k |-> LineEntry(i)])

Cells(m, base) == [i \in 1..m |-> createNode("mtd", <<Leaf(base + i)>>, NoAttr)]

Rows(n) == [i \in 1..n |-> createNode("mtr", Cells(1, 100 * i), NoAttr)]

ArrayStates ==
  {[NewArray(FALSE, num, Lines(k)) EXCEPT
      !.table = Rows(n), !.row = Cells(m, 10), !.data = d, !.hfill = h] :
     num \in BOOLEAN, k \in 0..MaxLines, n \in 0..MaxRows, m \in 0..MaxCells,
     d \in {<<>>, <<Leaf(1)>>}, h \in {<<>>, <<0>>}}

InitArrayOps ==
  /\ PInit
  /\ cTop \in ArrayStates
  /\ cItem = NoItem
  /\ cOut = NoItem
  /\ cOp = "init"

DoEndEntry ==
  /\ cOp = "init"
  /\ cOut' = EndEntry(cTop)
  /\ cOp' = "EndEntry"
  /\ UNCHANGED <<cTop, cItem, pvars>>

DoEndRow ==
  /\ cOp = "init"
  /\ cOut' = EndRow(cTop)
  /\ cOp' = "EndRow"
  /\ UNCHANGED <<cTop, cItem, pvars>>

DoEndTable ==
  /\ cOp = "init"
  /\ cOut' = EndTable(cTop)
  /\ cOp' = "EndTable"
  /\ UNCHANGED <<cTop, cItem, pvars>>

NextArrayOps == DoEndEntry \/ DoEndRow \/ DoEndTable

SpecArrayOps == InitArrayOps /\ [][NextArrayOps]_vars

\* the entries of the row-line spec of an array item (none when it is unset)
Entries(item) ==
  IF item.arraydef.rowlines = <<>> THEN <<>> ELSE Split(item.arraydef.rowlines)

AllNone(list, from) == \A i \in from..Len(list) : list[i] = <<"none">>

\* C8 as stated: after EndTable on a k-entry spec and n rows, k = n drops the
\* last entry and adds 'bottom' to frame, and k < n pads the spec with 'none'
\* to n entries (3 rows and 2 entries end with 3 entries).
C8_PadsToRowCount ==
  (cOp = "EndTable" /\ Len(Entries(cTop)) >= 1) =>
    /\ (Len(Entries(cTop)) = Len(cOut.table) =>
          /\ Entries(cOut) = Pop(Entries(cTop))
          /\ cOut.frame = Append(cTop.frame, "bottom"))
    /\ (Len(Entries(cTop)) < Len(cOut.table) =>
          /\ Len(Entries(cOut)) = Len(cOut.table)
          /\ SubSeq(Entries(cOut), 1, Len(Entries(cTop))) = Entries(cTop)
          /\ AllNone(Entries(cOut), Len(Entries(cTop)) + 1))

\* C8 amended: k = n drops the last entry and adds 'bottom' to frame; k < n - 1
\* appends exactly one 'none' entry; otherwise (k = n - 1, as for 3 rows and a
\* 2-entry spec, or k > n) the spec and frame are left as they are.
C8_RowLines ==
  (cOp = "EndTable" /\ Len(Entries(cTop)) >= 1) =>
    /\ (Len(Entries(cTop)) = Len(cOut.table) =>
          /\ Entries(cOut) = Pop(Entries(cTop))
          /\ cOut.frame = Append(cTop.frame, "bottom"))
    /\ (Len(Entries(cTop)) < Len(cOut.table) - 1 =>
          /\ Entries(cOut) = Append(Entries(cTop), <<"none">>)
          /\ cOut.frame = cTop.frame)
    /\ (Len(Entries(cTop)) = Len(cOut.table) - 1 \/ Len(Entries(cTop)) > Len(cOut.table) =>
          /\ cOut.arraydef.rowlines = cTop.arraydef.rowlines
          /\ cOut.frame = cTop.frame)

C8_Witness ==
  /\ cOp = "EndTable"
  /\ Len(cTop.table) = 2 /\ Len(cTop.data) = 1 /\ Len(cOut.table) = 3
  /\ Len(Entries(cTop)) = 2 /\ Len(Entries(cOut)) = 2

LastRow(item) == item.table[Len(item.table)]

RowAppended ==
  /\ cOut.row = <<>>
  /\ Len(cOut.table) = Len(cTop.table) + 1
  /\ SubSeq(cOut.table, 1, Len(cTop.table)) = cTop.table

\* C10 as stated: EndRow on a numbered array with three cells makes a labeled
\* row with the first cell at row-start and the other cells in order; any
\* other row is a plain row in push order; the row is appended and reset.
C10_FirstCellIsLabel ==
  cOp = "EndRow" =>
    /\ RowAppended
    /\ IF cTop.isNumbered /\ Len(cTop.row) = 3
       THEN LastRow(cOut).type = "mlabeledtr" /\ LastRow(cOut).kids = cTop.row
       ELSE LastRow(cOut).type = "mtr" /\ LastRow(cOut).kids = cTop.row

\* C10 amended: the labeled row starts with the LAST cell of the row (the
\* equation number), followed by the first and second cell in order.
C10_EndRow ==
  cOp = "EndRow" =>
    /\ RowAppended
    /\ IF cTop.isNumbered /\ Len(cTop.row) = 3
       THEN /\ LastRow(cOut).type = "mlabeledtr"
            /\ LastRow(cOut).kids = <<cTop.row[3], cTop.row[1], cTop.row[2]>>
       ELSE LastRow(cOut).type = "mtr" /\ LastRow(cOut).kids = cTop.row

C10_Witness ==
  /\ cOp = "EndRow" /\ cTop.isNumbered /\ Len(cTop.row) = 3
  /\ LastRow(cOut).type = "mlabeledtr"
  /\ LastRow(cOut).kids[1] = cTop.row[3]

(***************************************************************************)
(* Parses of grouping items only: start, open, close, left, right, final   *)
(* nodes, stop.                                                            *)
(***************************************************************************)
NextGroup ==
  \/ PushStart(MaxBrace)
  \/ PushStop(MaxBrace)
  \/ PushOpen(MaxBrace)
  \/ PushClose(MaxBrace)
  \/ PushMml(MaxBrace, Identifiers)
  \/ PushLeft(MaxBrace)
  \/ PushRight(MaxBrace)

SpecGroup == Init /\ [][NextGroup]_vars

Last(seq) == seq[Len(seq)]

LastTag == IF Len(input) = 0 THEN "" ELSE Last(input)

RECURSIVE Count(_, _)
Count(seq, tags) ==
  IF Len(seq) = 0 THEN 0
  ELSE (IF Head(seq) \in tags THEN 1 ELSE 0) + Count(Tail(seq), tags)

\* the stack holds the finished tree: one mml item with one node
IsTree(st) == Len(st) = 1 /\ st[1].kind = "mml" /\ Len(st[1].data) = 1

OnlyBraces == Count(input, LeftDelims \cup RightDelims) = 0

PendingOpens(st) == Cardinality({i \in 1..Len(st) : st[i].kind = "open"})

\* C1: in a parse of start, open, close, final items and stop, a tree is
\* produced only with as many open as close pushes; while the parse runs the
\* pending open items are the open pushes not yet matched by a close; a close
\* raises an error exactly when no open is pending (ExtraCloseMissingOpen) and a
\* stop exactly when one is pending (ExtraOpenMissingClose).
C1_Balanced ==
  OnlyBraces =>
    /\ (status = "done" =>
          IsTree(stack) /\ Count(input, {"open"}) = Count(input, {"close"}))
    /\ (status = "run" =>
          PendingOpens(stack) = Count(input, {"open"}) - Count(input, {"close"}))
    /\ (status = "error" => LastTag \in {"close", "stop"})
    /\ (status = "error" /\ LastTag = "close" =>
          /\ err = TexError("ExtraCloseMissingOpen", <<>>)
          /\ Count(input, {"close"}) = Count(input, {"open"}) + 1)
    /\ (status = "error" /\ LastTag = "stop" =>
          /\ err = TexError("ExtraOpenMissingClose", <<>>)
          /\ Count(input, {"open"}) > Count(input, {"close"}))

C1_Witness ==
  /\ OnlyBraces /\ status = "done" /\ IsTree(stack)
  /\ Count(input, {"open"}) = 2 /\ Count(input, {"close"}) = 2

Top(st) == st[Len(st)]

\* the nodes between the delimiters of a fenced node
Content(node) ==
  IF Len(node.kids) = 1 /\ node.kids[1].type = "inferredMrow" THEN node.kids[1].kids
  ELSE node.kids

\* the identities of the token nodes of a tree, left to right
RECURSIVE IdsOfNodes(_)
IdsOfNodes(nodes) ==
  IF Len(nodes) = 0 THEN <<>>
  ELSE (IF "id" \in DOMAIN nodes[1].attr THEN <<nodes[1].attr.id>>
        ELSE IdsOfNodes(nodes[1].kids)) \o IdsOfNodes(Tail(nodes))

RECURSIVE IdsOfStack(_)
IdsOfStack(st) ==
  IF Len(st) = 0 THEN <<>> ELSE IdsOfNodes(st[1].data) \o IdsOfStack(Tail(st))

\* the positions of the final items in the push sequence
RECURSIVE MmlPushes(_, _)
MmlPushes(seq, i) ==
  IF i > Len(seq) THEN <<>>
  ELSE (IF seq[i] = "mml" THEN <<i>> ELSE <<>>) \o MmlPushes(seq, i + 1)

\* the nodes held by the stack are the pushed final nodes, in push order
PushOrder == status = "run" => IdsOfStack(stack) = MmlPushes(input, 1)

\* a right item pushed on a pending left item: the left item is replaced by one
\* fenced node, absorbed by the item below
RightOnLeft ==
  (status = "run" /\ Len(stack) > 1 /\ Top(stack).kind = "left"
   /\ Len(input') = Len(input) + 1 /\ Last(input') \in RightDelims) =>
    /\ status' = "run"
    /\ Len(stack') = Len(stack) - 1
    /\ SubSeq(stack', 1, Len(stack) - 2) = SubSeq(stack, 1, Len(stack) - 2)
    /\ Len(Top(stack').data) = Len(stack[Len(stack) - 1].data) + 1
    /\ Pop(Top(stack').data) = stack[Len(stack) - 1].data
    /\ Last(Top(stack').data).attr = [open |-> Top(stack).delim, close |-> Last(input')]
    /\ Content(Last(Top(stack').data)) = Top(stack).data

StopOnLeft ==
  (status = "run" /\ Len(stack) > 1 /\ Top(stack).kind = "left"
   /\ Len(input') = Len(input) + 1 /\ Last(input') = "stop") =>
    status' = "error" /\ err' = TexError("ExtraLeftMissingRight", <<>>)

\* C2: a right item pushed on a pending left item replaces it by exactly one
\* fenced node with the left item's delimiter as open, the right item's as
\* close and the accumulated nodes in push order as content; a stop pushed on
\* a pending left item raises ExtraLeftMissingRight.
C2_LeftRight == []PushOrder /\ [][RightOnLeft /\ StopOnLeft]_vars

C2_Witness ==
  /\ status = "run" /\ LastTag = ")" /\ Len(stack) = 1
  /\ Len(stack[1].data) = 1
  /\ stack[1].data[1].attr = [open |-> "(", close |-> ")"]
  /\ Len(Content(stack[1].data[1])) = 3
  /\ Count(input, {"open"}) = 1

(***************************************************************************)
(* Parses with fraction markers and the items that may stand around them.  *)
(***************************************************************************)
NextOver ==
  \/ PushStart(MaxOver)
  \/ PushOpen(MaxOver)
  \/ PushClose(MaxOver)
  \/ PushMml(MaxOver, Tokens)
  \/ PushOver(MaxOver)
  \/ PushSubsup(MaxOver)
  \/ PushPrime(MaxOver)
  \/ PushStyle(MaxOver)
  \/ PushPosition(MaxOver)
  \/ PushFn(MaxOver)
  \/ PushNot(MaxOver)
  \/ PushDots(MaxOver)

SpecOver == Init /\ [][NextOver]_vars

\* an over item is on the stack with no open item above it
OverPending(st) ==
  \E i \in 1..Len(st) : st[i].kind = "over" /\ \A j \in (i + 1)..Len(st) : ~isOpen(st[j])

SecondOver ==
  status = "run" /\ OverPending(stack) /\ input' = Append(input, "over")

\* C4 as stated: a second over item in the scope of a pending one always raises
\* AmbiguousUseOf, whatever was pushed in between.
C4_AlwaysAmbiguous ==
  [][SecondOver => (status' = "error" /\ err'.key = "AmbiguousUseOf")]_vars

\* the error a second over item raises, by the item on top of the stack
SecondOverError(top) ==
  CASE top.kind = "subsup" /\ top.position = 1 -> TexError("MissingOpenForSub", <<>>)
    [] top.kind = "subsup" /\ top.position = 2 -> TexError("MissingOpenForSup", <<>>)
    [] top.kind = "position" -> TexError("MissingBoxFor", <<top.name>>)
    [] OTHER -> TexError("AmbiguousUseOf", <<"\\over">>)

\* C4 amended: the second over item always raises an error: MissingOpenForSub /
\* MissingOpenForSup when a subsup item is on top of the stack, MissingBoxFor
\* when a position item is on top, and AmbiguousUseOf in every other case.
C4_SecondOverError ==
  [][SecondOver => (status' = "error" /\ err' = SecondOverError(Top(stack)))]_vars

C4_Witness ==
  /\ status = "error" /\ err.key = "AmbiguousUseOf"
  /\ input = <<"start", "over", "style", "mml", "over">>

(***************************************************************************)
(* Properties of whole parses (Spec).                                      *)
(***************************************************************************)
\* C5: once stop has been processed either an error was raised or the stack is
\* exactly one final item holding the tree; an error leaves no result and a
\* running parse has raised none.
C5_TreeOrError ==
  /\ (LastTag = "stop" => status \in {"done", "error"})
  /\ (status = "done" => err = NoError /\ IsTree(stack))
  /\ (status = "error" => err # NoError)
  /\ (status = "run" => err = NoError)

C5_Witness ==
  /\ status = "done" /\ IsTree(stack) /\ Len(input) = MaxPush
  /\ stack[1].data[1].type = "inferredMrow"

(***************************************************************************)
(* Parses of one un-numbered array: start, array, then final nodes, entry  *)
(* breaks and row breaks, then stop or close.                              *)
(***************************************************************************)
InArray == status = "run" /\ Len(stack) = 2 /\ stack[2].kind = "array"

FeedArray == Len(input) = 1 /\ PushArray(MaxArr, PlainArrays)

FeedNode ==
  InArray /\ Len(stack[2].data) < MaxFedNodes /\ PushMml(MaxArr, Identifiers)

FeedEntry ==
  InArray /\ Len(stack[2].row) + 1 < MaxFedCols /\ PushCell(MaxArr, {"isEntry"})

FeedRow ==
  InArray /\ Len(stack[2].table) < MaxFedRows /\ PushCell(MaxArr, {"isCR"})

FeedStop == InArray /\ PushStop(MaxArr)

FeedClose == InArray /\ PushClose(MaxArr)

NextArr ==
  \/ PushStart(MaxArr)
  \/ FeedArray
  \/ FeedNode
  \/ FeedEntry
  \/ FeedRow
  \/ FeedStop
  \/ FeedClose

SpecArr == Init /\ [][NextArr]_vars

\* the rows, entries and nodes pushed at positions i..n of the push sequence
RECURSIVE FedFrom(_, _, _, _, _)
FedFrom(i, n, rows, row, entry) ==
  IF i > n THEN [rows |-> rows, row |-> row, entry |-> entry]
  ELSE CASE input[i] = "mml" -> FedFrom(i + 1, n, rows, row, Append(entry, i))
         [] input[i] = "isEntry" -> FedFrom(i + 1, n, rows, Append(row, entry), <<>>)
         [] input[i] = "isCR" -> FedFrom(i + 1, n, Append(rows, Append(row, entry)), <<>>, <<>>)
         [] OTHER -> FedFrom(i + 1, n, rows, row, entry)

\* the last row counts with or without a row break after it
WithLastRow(p) ==
  IF Len(p.row) > 0 \/ Len(p.entry) > 0 THEN Append(p.rows, Append(p.row, p.entry))
  ELSE p.rows

FedRows == WithLastRow(FedFrom(3, Len(input) - 1, <<>>, <<>>, <<>>))

\* r >= 1 rows of c entries each, every entry with at least one node
Rectangular(t) ==
  /\ Len(t) >= 1
  /\ \A i \in 1..Len(t) :
       Len(t[i]) = Len(t[1]) /\ \A j \in 1..Len(t[i]) : Len(t[i][j]) >= 1

\* the identities of the nodes of a table node, by row and cell
Shape(table) ==
  [i \in 1..Len(table.kids) |->
     [j \in 1..Len(table.kids[i].kids) |-> IdsOfNodes(table.kids[i].kids[j].kids)]]

IsTable(table) ==
  /\ table.type = "mtable"
  /\ \A i \in 1..Len(table.kids) :
       /\ table.kids[i].type = "mtr"
       /\ \A j \in 1..Len(table.kids[i].kids) : table.kids[i].kids[j].type = "mtd"

ArrayClosed ==
  Len(input) >= 3 /\ input[2] = "array" /\ LastTag \in {"stop", "close"} /\ status # "error"

\* C9: when an un-numbered array fed r rows of c non-empty entries has been
\* closed, with or without a row break after the last row, the table node has r
\* mtr rows of c mtd cells, and rows, cells and the nodes in each cell are in
\* push order.
C9_TableShape ==
  (ArrayClosed /\ Rectangular(FedRows)) =>
    /\ Len(stack) = 1 /\ Len(stack[1].data) = 1
    /\ IsTable(stack[1].data[1])
    /\ Shape(stack[1].data[1]) = FedRows

C9_Witness ==
  /\ ArrayClosed /\ Rectangular(FedRows)
  /\ Len(FedRows) = 2 /\ Len(FedRows[1]) = 2
  /\ input[Len(input) - 1] = "isCR"
  /\ Len(stack[1].data[1].kids) = 2
  /\ Len(stack[1].data[1].kids[2].kids) = 2

(***************************************************************************)
(* Further properties of a single reduction call (SpecCheck).              *)
(***************************************************************************)
\* C11: the reduction rule of an mml item leaves the mml item unchanged for
\* every incoming item, final items included: it still holds the one node it
\* was created with.
C11_MmlUnchanged ==
  (Reduced /\ cTop.kind = "mml") => (cOut.this = cTop /\ Len(cOut.this.data) = 1)

\* C12 as stated: the pending slot is recorded as sub = 0 / sup = 1 and every
\* closing item raises MissingScript, MissingOpenForSub (slot sub) or
\* MissingOpenForSup (slot sup), never another error.
C12_ScriptErrorsOnly ==
  (Reduced /\ cTop.kind = "subsup" /\ cTop.position \in {0, 1} /\ isClose(cItem)) =>
    /\ cOut.tag = "error"
    /\ cOut.err.key \in {"MissingScript", "MissingOpenForSub", "MissingOpenForSup"}
    /\ (cOut.err.key = "MissingOpenForSub" => cTop.position = 0)
    /\ (cOut.err.key = "MissingOpenForSup" => cTop.position = 1)

\* the error a pending subsup item raises for a closing item
SubsupCloseError(this, item) ==
  CASE item.kind = "stop" -> "MissingScript"
    [] item.kind = "close" -> "ExtraCloseMissingOpen"
    [] item.kind = "right" -> "MissingLeftExtraRight"
    [] item.kind = "end" -> "ExtraOpenMissingClose"
    [] OTHER -> IF this.position = 1 THEN "MissingOpenForSub" ELSE "MissingOpenForSup"

\* C12 amended: the pending slot is recorded as sub = 1 / sup = 2; every closing
\* item raises an error and leaves the item as it was: stop raises
\* MissingScript, close, right and end raise the brace and delimiter errors of
\* the base table, and over and cell raise MissingOpenForSub (slot sub) or
\* MissingOpenForSup (slot sup).
C12_CloseErrors ==
  (Reduced /\ cTop.kind = "subsup" /\ cTop.position \in {1, 2} /\ isClose(cItem)) =>
    /\ Raises(SubsupCloseError(cTop, cItem), <<>>)
    /\ cOut.this = cTop

C12_Witness ==
  /\ Reduced /\ cTop.kind = "subsup" /\ cTop.position = 2 /\ cItem.kind = "over"
  /\ Raises("MissingOpenForSup", <<>>)

(***************************************************************************)
(* Properties of the items of a parse (Spec).                              *)
(***************************************************************************)
Flags(item) == <<isOpen(item), isClose(item), isFinal(item)>>

FlagsOK(item) ==
  /\ ~(isOpen(item) /\ isClose(item))
  /\ (isFinal(item) => item.kind = "mml")
  /\ (item.kind = "mml" => Len(item.data) = 1)

\* the items among the elements a reduction returns (the others are nodes)
ItemsOf(list) == {list[i] : i \in {j \in 1..Len(list) : ~IsNode(list[j])}}

\* a reduction keeps the flags of both items, and the items it returns are
\* well-formed
ReductionOK(this, item, out) ==
  /\ Flags(out.this) = Flags(this)
  /\ Flags(out.item) = Flags(item)
  /\ \A new \in ItemsOf(out.list) : FlagsOK(new)

EnvIds == {{}, {"font"}, {"font", "inner"}}

EnvTops ==
  {[t EXCEPT !.env = e] : t \in {x \in TopItems : x.hasEnv}, e \in EnvIds}
  \cup {t \in TopItems : ~t.hasEnv}

InitEnv ==
  /\ PInit
  /\ cTop \in EnvTops
  /\ cItem \in IncomingItems
  /\ cOut = NoItem
  /\ cOp = "init"

SpecEnv == InitEnv /\ [][Reduce]_vars

ItemKinds ==
  {"start", "stop", "open", "close", "prime", "subsup", "over", "left", "right", "begin",
   "end", "style", "position", "array", "cell", "mml", "fn", "not", "dots"}

\* an item has an env at creation exactly when it is isOpen, and it is empty
EnvAtCreation ==
  \A k \in ItemKinds : BaseItem(k).hasEnv = isOpen(BaseItem(k)) /\ BaseItem(k).env = {}

\* the rule returned the replacement for the closed item
Replaced == cOut.tag \in {"item", "list"} /\ Len(cOut.list) > 0 /\ cOut.list[1].kind = "mml"

\* C14 as stated: whenever an isOpen item is closed by its counterpart and its
\* rule returns the replacement mml item, the closed item's env has no entries.
C14_EnvClearedOnClose ==
  /\ EnvAtCreation
  /\ (Reduced /\ isOpen(cTop) /\ Counterpart(cTop, cItem) /\ Replaced => cOut.this.env = {})

\* C14 amended: an item has an (empty) env at creation exactly when it is
\* isOpen; an array item has no env entries after any closing item other than
\* over that it handles without raising an error; start, open, left and begin
\* items keep their env entries through every reduction, also when they are
\* closed by their counterpart.
C14_EnvClearedByArray ==
  /\ EnvAtCreation
  /\ (Reduced /\ cTop.kind = "array" /\ isClose(cItem) /\ cItem.kind # "over"
        /\ cOut.tag # "error" => cOut.this.env = {})
  /\ (Reduced /\ cTop.kind \in {"start", "open", "left", "begin"} => cOut.this.env = cTop.env)

C14_Witness ==
  /\ Reduced /\ cTop.kind = "array" /\ cTop.requireClose /\ cTop.env = {"font", "inner"}
  /\ cItem.kind = "close" /\ Replaced /\ cOut.this.env = {}

(***************************************************************************)
(* The node stack of one item: Push, Pop and Top.                          *)
(***************************************************************************)
\* BaseItem.Pop: the node removed and the item afterwards
ItemPop(item) ==
  [node |-> IF Len(item.data) = 0 THEN Undef ELSE item.data[Len(item.data)],
   this |-> [item EXCEPT !.data = Pop(item.data)]]

\* data.slice(0, n) for n >= 0
SliceFromStart(data, n) == SubSeq(data, 1, IF n < Len(data) THEN n ELSE Len(data))

\* the value of the optional argument n of Top: args is <<>> when it is left out
TopCount(args) == IF Len(args) = 0 THEN 1 ELSE args[1]

\* BaseItem.Top
ItemTop(item, args) ==
  [nodes |-> SliceFromStart(item.data, TopCount(args)), this |-> item]

TopArgs == {<<>>} \cup {<<n>> : n \in 0..MaxTop}

InitNodes ==
  /\ PInit
  /\ cTop = BaseItem("open")
  /\ cItem = NoItem
  /\ cOut = [op |-> "init"]
  /\ cOp = "init"

DoItemPush ==
  /\ Len(cTop.data) < MaxNodes
  /\ \E id \in 1..MaxNodes :
       /\ cTop' = Push(cTop, <<Leaf(id)>>)
       /\ cOut' = [op |-> "Push", before |-> cTop]
  /\ cOp' = "Push"
  /\ UNCHANGED <<cItem, pvars>>

DoItemPop ==
  /\ cTop' = ItemPop(cTop).this
  /\ cOut' = [op |-> "Pop", before |-> cTop, node |-> ItemPop(cTop).node]
  /\ cOp' = "Pop"
  /\ UNCHANGED <<cItem, pvars>>

DoItemTop ==
  /\ \E n \in TopArgs :
       /\ cTop' = ItemTop(cTop, n).this
       /\ cOut' = [op |-> "Top", before |-> cTop, n |-> n, nodes |-> ItemTop(cTop, n).nodes]
  /\ cOp' = "Top"
  /\ UNCHANGED <<cItem, pvars>>

NextNodes == DoItemPush \/ DoItemPop \/ DoItemTop

SpecNodes == InitNodes /\ [][NextNodes]_vars

\* the last n elements of a sequence (all of them if it has fewer)
LastN(seq, n) == SubSeq(seq, IF n < Len(seq) THEN Len(seq) - n + 1 ELSE 1, Len(seq))

\* C17: Top(n) leaves data unchanged and returns the n most recently pushed
\* nodes (n = 1 when left out); for an item holding at least one node, Top()[0]
\* is the node that Pop() returns next.
C17_TopIsMostRecent ==
  cOp = "Top" =>
    /\ cTop = cOut.before
    /\ cOut.nodes = LastN(cTop.data, TopCount(cOut.n))
    /\ (cOut.n = <<>> /\ Len(cTop.data) > 0 => cOut.nodes[1] = ItemPop(cTop).node)

\* the nodes of an item as one node: a single node as is, otherwise one row
AsOneNode(data) == IF Len(data) = 1 THEN data[1] ELSE [type |-> "mrow", kids |-> data, attr |-> NoAttr]

\* C19: an isOpen item (start, open, left, begin, array) that receives an over
\* item hands its accumulated nodes to the over item as the pending numerator
\* (a single node as is, otherwise one row holding them in push order), is left
\* with empty data, raises no error and returns true.
C19_OverTakesNumerator ==
  (Reduced /\ isOpen(cTop) /\ cItem.kind = "over") =>
    /\ cOut.tag = "true"
    /\ cOut.item = [cItem EXCEPT !.num = AsOneNode(cTop.data)]
    /\ cOut.this = [cTop EXCEPT !.data = <<>>]

C19_Witness ==
  /\ Reduced /\ cTop.kind = "left" /\ Len(cTop.data) = 2 /\ cItem.kind = "over"
  /\ cOut.tag = "true" /\ cOut.item.num.type = "mrow" /\ cOut.item.num.kids = cTop.data
  /\ cOut.this.data = <<>>

\* C20: a start, open, left or begin item that receives a cell item returns
\* false and stays unchanged if the cell's linebreak property is set, and
\* otherwise raises Misplaced with the cell item's name, returning nothing.
C20_MisplacedCell ==
  (Reduced /\ cTop.kind \in {"start", "open", "left", "begin"} /\ cItem.kind = "cell") =>
    /\ cOut.this = cTop
    /\ (cItem.linebreak => cOut.tag = "false" /\ cOut.err = NoError)
    /\ (~cItem.linebreak => Raises("Misplaced", <<cItem.name>>) /\ cOut.list = <<>>)

C20_Witness ==
  /\ Reduced /\ cTop.kind = "begin" /\ Len(cTop.data) = 1
  /\ cItem.kind = "cell" /\ ~cItem.linebreak /\ cItem.isEntry
  /\ Raises("Misplaced", <<cItem.name>>)

(***************************************************************************)
(* Option lists.  Objects and arrays live in a heap, a sequence of cells   *)
(* addressed by their index; a value is a scalar, undefined, null or a     *)
(* reference to a cell.  A cell keeps its own properties in insertion      *)
(* order: key k, value v and the enumerable flag e.                        *)
(***************************************************************************)
Num(n) == [t |-> "num", v |-> n]
UndefV == [t |-> "undef", v |-> 0]
NullV == [t |-> "null", v |-> 0]
Ref(a) == [t |-> "ref", v |-> a]

IsRef(val) == val.t = "ref"

\* the symbol APPEND, written as its toString()
APPEND == "Symbol(Append to option array)"

IsSymbol(key) == key = APPEND

IndexKeys == <<"0", "1", "2", "3", "4", "5", "6", "7", "8", "9">>

IsIndex(key) == \E i \in 1..Len(IndexKeys) : IndexKeys[i] = key

Prop(key, val) == [k |-> key, v |-> val, e |-> TRUE]

Cell(kind, props) == [kind |-> kind, props |-> props]

\* Array.isArray(value)
IsArray(h, val) == IsRef(val) /\ h[val.v].kind = "arr"

\* isObject(obj): an object literal
isObject(h, val) == IsRef(val) /\ h[val.v].kind = "obj"

\* the position of an own property, 0 if there is none
RECURSIVE PropIndex(_, _, _)
PropIndex(props, key, i) ==
  IF i > Len(props) THEN 0
  ELSE IF props[i].k = key THEN i ELSE PropIndex(props, key, i + 1)

\* obj[key]
Get(h, a, key) ==
  IF PropIndex(h[a].props, key, 1) = 0 THEN UndefV
  ELSE h[a].props[PropIndex(h[a].props, key, 1)].v

\* obj[key] = val: an existing property keeps its place, a new one is added last
SetAt(props, i, key, val) ==
  IF i = 0 THEN Append(props, Prop(key, val)) ELSE [props EXCEPT ![i].v = val]

Set(h, a, key, val) ==
  [h EXCEPT ![a].props = SetAt(h[a].props, PropIndex(h[a].props, key, 1), key, val)]

IsEnumIndex(p) == p.e /\ IsIndex(p.k)
IsEnumName(p) == p.e /\ ~IsSymbol(p.k) /\ ~IsIndex(p.k)
IsSymbolProp(p) == IsSymbol(p.k)

RECURSIVE KeysOf(_)
KeysOf(props) == IF Len(props) = 0 THEN <<>> ELSE <<props[1].k>> \o KeysOf(Tail(props))

\* Object.keys(obj): the enumerable string keys, indices first
ObjectKeys(cell) ==
  KeysOf(SelectSeq(cell.props, IsEnumIndex)) \o KeysOf(SelectSeq(cell.props, IsEnumName))

\* Keys(def): Object.keys followed by the own symbols
Keys(h, val) ==
  IF ~IsRef(val) THEN <<>>
  ELSE ObjectKeys(h[val.v]) \o KeysOf(SelectSeq(h[val.v].props, IsSymbolProp))

\* array.length
ArrayLength(cell) == Len(SelectSeq(cell.props, IsEnumIndex))

\* array.push(elems[0]): only the first element is stored
ArrayPushFirst(h, a, elems) ==
  IF Len(elems) = 0 THEN h ELSE Set(h, a, IndexKeys[Len(h[a].props) + 1], Head(elems))

\* array.push(...elems): the elements themselves are stored, not copies
RECURSIVE ArrayPush(_, _, _)
ArrayPush(h, a, elems) ==
  IF Len(elems) = 0 THEN h
  ELSE ArrayPush(Set(h, a, IndexKeys[ArrayLength(h[a]) + 1], Head(elems)), a, Tail(elems))

\* the elements of an array, in index order
RECURSIVE ValuesOf(_)
ValuesOf(props) == IF Len(props) = 0 THEN <<>> ELSE <<props[1].v>> \o ValuesOf(Tail(props))

Elements(cell) == ValuesOf(SelectSeq(cell.props, IsEnumIndex))

\* the outcome of a call: the heap afterwards, the error thrown and the value
\* returned
NoThrow == [name |-> "", key |-> ""]

\* new Error("Invalid option '" + key + "' (no default value).")
InvalidOption(key) == [name |-> "Invalid option", key |-> key]

Done(h, val) == [heap |-> h, err |-> NoThrow, ret |-> val]

Thrown(h, error) == [heap |-> h, err |-> error, ret |-> UndefV]

RECURSIVE InsertKeys(_, _, _, _, _)
RECURSIVE CopyKeys(_, _, _, _)
RECURSIVE InsertEach(_, _, _, _)

\* Copy(def) once every key has been visited: Object.defineProperties({}, props)
CopyDone(h, props) == Done(Append(h, Cell("obj", props)), Ref(Len(h) + 1))

\* Insert([], value, false) on a new array
InsertIntoNewArray(h, sval) ==
  InsertKeys(Append(h, Cell("arr", <<>>)), Ref(Len(h) + 1), sval, Keys(h, sval), FALSE)

\* Copy keeping the arrays of def
CopyValueSharesArrays(h, value) ==
  IF isObject(h, value) THEN CopyKeys(h, value, Keys(h, value), <<>>) ELSE Done(h, value)

\* the value Copy stores for a property value
CopyValue(h, value) ==
  IF IsArray(h, value) THEN InsertIntoNewArray(h, value)
  ELSE IF isObject(h, value) THEN CopyKeys(h, value, Keys(h, value), <<>>)
  ELSE Done(h, value)

\* if (prop.enumerable) props[key] = prop
CopyProp(props, p, val) == IF p.e THEN Append(props, [p EXCEPT !.v = val]) ELSE props

CopyNext(r, def, p, keys, props) == CopyKeys(r.heap, def, keys, CopyProp(props, p, r.ret))

OwnProp(h, a, key) == h[a].props[PropIndex(h[a].props, key, 1)]

CopyKeys(h, def, keys, props) ==
  IF Len(keys) = 0 THEN CopyDone(h, props)
  ELSE CopyNext(CopyValue(h, Get(h, def.v, Head(keys))), def, OwnProp(h, def.v, Head(keys)),
                Tail(keys), props)

\* Copy(def)
Copy(h, def) == CopyKeys(h, def, Keys(h, def), <<>>)

\* dst[key] = <the value a call returned>
Assign(r, dst, key) == Done(Set(r.heap, dst.v, key, r.ret), dst)

\* dst[key] = []; Insert(dst[key], sval, false)
AssignNewArray(h, dst, key, sval) ==
  InsertKeys(Set(Append(h, Cell("arr", <<>>)), dst.v, key, Ref(Len(h) + 1)),
             Ref(Len(h) + 1), sval, Keys(h, sval), FALSE)

\* the append directive: the only key of sval is APPEND and holds an array
IsAppend(h, sval, dval) ==
  IsArray(h, dval) /\ IsArray(h, Get(h, sval.v, APPEND)) /\ Len(Keys(h, sval)) = 1

\* the loop body merging nested literals without warnings
InsertKeyNestedSilent(h, dst, key, sval, dval, warn) ==
  IF isObject(h, sval) /\ IsRef(dval)
  THEN IF IsAppend(h, sval, dval)
       THEN Done(ArrayPush(h, dval.v, Elements(h[Get(h, sval.v, APPEND).v])), dst)
       ELSE InsertKeys(h, dval, sval, Keys(h, sval), FALSE)
  ELSE IF IsArray(h, sval) THEN AssignNewArray(h, dst, key, sval)
  ELSE IF isObject(h, sval) THEN Assign(Copy(h, sval), dst, key)
  ELSE Done(Set(h, dst.v, key, sval), dst)

\* the body of the loop of Insert for one key
InsertKey(h, dst, key, sval, dval, warn) ==
  IF isObject(h, sval) /\ IsRef(dval)
  THEN IF IsAppend(h, sval, dval)
       THEN Done(ArrayPush(h, dval.v, Elements(h[Get(h, sval.v, APPEND).v])), dst)
       ELSE InsertKeys(h, dval, sval, Keys(h, sval), warn)
  ELSE IF IsArray(h, sval) THEN AssignNewArray(h, dst, key, sval)
  ELSE IF isObject(h, sval) THEN Assign(Copy(h, sval), dst, key)
  ELSE Done(Set(h, dst.v, key, sval), dst)

InsertNext(r, dst, src, keys, warn) ==
  IF r.err # NoThrow THEN r ELSE InsertKeys(r.heap, dst, src, keys, warn)

\* the loop of Insert over the keys that are left
InsertKeys(h, dst, src, keys, warn) ==
  IF Len(keys) = 0 THEN Done(h, dst)
  ELSE IF warn /\ Get(h, dst.v, Head(keys)) = UndefV
  THEN Thrown(h, InvalidOption(Head(keys)))
  ELSE InsertNext(InsertKey(h, dst, Head(keys), Get(h, src.v, Head(keys)),
                            Get(h, dst.v, Head(keys)), warn),
                  dst, src, Tail(keys), warn)

\* Insert(dst, src, warn)
Insert(h, dst, src, warn) == InsertKeys(h, dst, src, Keys(h, src), warn)

InsertEach(r, options, defs, warn) ==
  IF Len(defs) = 0 \/ r.err # NoThrow THEN r
  ELSE InsertEach(Insert(r.heap, options, Head(defs), warn), options, Tail(defs), warn)

\* DefaultOptions(options, ...defs)
DefaultOptions(h, options, defs) == InsertEach(Done(h, options), options, defs, FALSE)

\* UserOptions leaving the destination untouched when it throws
UserOptionsAtomic(h, options, defs) ==
  IF InsertEach(Done(h, options), options, defs, TRUE).err # NoThrow
  THEN Thrown(h, InsertEach(Done(h, options), options, defs, TRUE).err)
  ELSE InsertEach(Done(h, options), options, defs, TRUE)

\* UserOptions(options, ...defs)
UserOptions(h, options, defs) == InsertEach(Done(h, options), options, defs, TRUE)

(***************************************************************************)
(* Option lists written as terms, and the heap that holds them.            *)
(***************************************************************************)
TArr(items) == [t |-> "arr", items |-> items]
TObj(items) == [t |-> "obj", items |-> items]
Entry(key, term) == [k |-> key, v |-> term]

IsScalar(term) == term.t \in {"num", "undef", "null"}

RECURSIVE Build(_, _)
RECURSIVE BuildProps(_, _, _, _)

BuildNext(r, term, i, props) ==
  BuildProps(r.heap, term, i + 1,
             Append(props, Prop(IF term.t = "arr" THEN IndexKeys[i] ELSE term.items[i].k, r.ret)))

BuildProps(h, term, i, props) ==
  IF i > Len(term.items) THEN Done(Append(h, Cell(term.t, props)), Ref(Len(h) + 1))
  ELSE BuildNext(Build(h, IF term.t = "arr" THEN term.items[i] ELSE term.items[i].v),
                 term, i, props)

\* the heap with the objects of a term added, and the value of the term
Build(h, term) == IF IsScalar(term) THEN Done(h, term) ELSE BuildProps(h, term, 1, <<>>)

Scalars == {Num(1), Num(2)}

SeqsUpTo(S, n) == UNION {[1..m -> S] : m \in 0..n}

ScalarArrays == {TArr(s) : s \in SeqsUpTo(Scalars, MaxElems)}

InnerKeys == {"x", "y"}

\* object literals of scalars
ScalarObjects ==
  {TObj(<<>>)} \cup {TObj(<<Entry(k, s)>>) : k \in InnerKeys, s \in Scalars}
  \cup {TObj(<<Entry("x", Num(1)), Entry("y", s)>>) : s \in Scalars}

\* append directives, and literals that hold APPEND next to another key
Directives ==
  {TObj(<<Entry(APPEND, a)>>) : a \in ScalarArrays}
  \cup {TObj(<<Entry(APPEND, Num(1))>>),
        TObj(<<Entry("x", Num(1)), Entry(APPEND, TArr(<<Num(2)>>))>>)}

Values1 == ScalarArrays \cup ScalarObjects \cup Directives

\* arrays and object literals that hold an array, a literal or a directive
Values2 ==
  {TArr(<<v>>) : v \in Values1} \cup {TObj(<<Entry(k, v)>>) : k \in InnerKeys, v \in Values1}

OptionValues == Scalars \cup Values1 \cup Values2

OptionKeys == {"a", "b"}

\* the destinations: one option with any value, undefined and null included
Destinations == {TObj(<<Entry("a", v)>>) : v \in OptionValues \cup {UndefV, NullV}}

\* the sources: one option with any value, optionally after a known scalar option
Sources ==
  {TObj(<<Entry(k, v)>>) : k \in OptionKeys, v \in OptionValues}
  \cup {TObj(<<Entry("a", Num(2)), Entry("b", v)>>) : v \in Scalars \cup ScalarObjects}

\* the heap holding a destination and a source that share nothing
TwoLists(d, s) ==
  [heap |-> s.heap, dst |-> d.ret, src |-> s.ret]

OptionStates == {TwoLists(Build(<<>>, d), Build(Build(<<>>, d).heap, s)) :
                   d \in Destinations, s \in Sources}

InitOptions ==
  /\ PInit
  /\ cTop \in OptionStates
  /\ cItem = NoItem
  /\ cOut = NoItem
  /\ cOp = "init"

Call(op, result) ==
  /\ cOp = "init"
  /\ cOp' = op
  /\ cOut' = result
  /\ UNCHANGED <<cTop, cItem, pvars>>

DoInsert == \E warn \in BOOLEAN :
  Call(IF warn THEN "InsertWarn" ELSE "Insert", Insert(cTop.heap, cTop.dst, cTop.src, warn))

DoDefaultOptions == Call("DefaultOptions", DefaultOptions(cTop.heap, cTop.dst, <<cTop.src>>))

DoUserOptions == Call("UserOptions", UserOptions(cTop.heap, cTop.dst, <<cTop.src>>))

DoCopy == Call("Copy", Copy(cTop.heap, cTop.src))

NextOptions == DoInsert \/ DoDefaultOptions \/ DoUserOptions \/ DoCopy

SpecOptions == InitOptions /\ [][NextOptions]_vars

(***************************************************************************)
(* Properties of the option-list functions (SpecOptions).                  *)
(***************************************************************************)
SeqRange(seq) == {seq[i] : i \in 1..Len(seq)}

EnumKeys(cell) == {cell.props[i].k : i \in {j \in 1..Len(cell.props) : cell.props[j].e}}

\* the value with every reference replaced by the object it leads to
RECURSIVE Deep(_, _)
Deep(h, val) ==
  IF ~IsRef(val) THEN val
  ELSE [kind |-> h[val.v].kind,
        get |-> [k \in EnumKeys(h[val.v]) |-> Deep(h, Get(h, val.v, k))]]

\* the arrays and objects a value leads to
RECURSIVE Reach(_, _)
Reach(h, val) ==
  IF ~IsRef(val) THEN {}
  ELSE {val.v} \cup UNION {Reach(h, h[val.v].props[i].v) : i \in 1..Len(h[val.v].props)}

Merging == cOp \in {"Insert", "InsertWarn", "DefaultOptions", "UserOptions"}

Warning == cOp \in {"InsertWarn", "UserOptions"}

\* a literal whose only key is APPEND, holding an array
IsDirective(h, sval) ==
  isObject(h, sval) /\ Keys(h, sval) = <<APPEND>> /\ IsArray(h, Get(h, sval.v, APPEND))

\* src holds a key whose value in dst is undefined, at top level or inside a
\* nested literal whose counterpart in dst is an object
RECURSIVE UnknownKey(_, _, _)
UnknownKey(h, dst, src) ==
  \E key \in SeqRange(Keys(h, src)) :
    \/ Get(h, dst.v, key) = UndefV
    \/ /\ isObject(h, Get(h, src.v, key)) /\ IsRef(Get(h, dst.v, key))
       /\ UnknownKey(h, Get(h, dst.v, key), Get(h, src.v, key))

\* the same, not looking into an append directive that meets an array
RECURSIVE UnknownOption(_, _, _)
UnknownOption(h, dst, src) ==
  \E key \in SeqRange(Keys(h, src)) :
    \/ Get(h, dst.v, key) = UndefV
    \/ /\ isObject(h, Get(h, src.v, key)) /\ IsRef(Get(h, dst.v, key))
       /\ ~(IsDirective(h, Get(h, src.v, key)) /\ IsArray(h, Get(h, dst.v, key)))
       /\ UnknownOption(h, Get(h, dst.v, key), Get(h, src.v, key))

InvalidThrown == cOut.err.name = "Invalid option"

\* C15 as stated: UserOptions throws 'Invalid option' whenever the source holds
\* a key whose value in the destination is undefined, at top level or inside a
\* nested literal whose destination counterpart is an object; DefaultOptions
\* never throws and afterwards the destination has a value for these keys.
C15_UnknownKeyThrows ==
  /\ (cOp = "UserOptions" /\ UnknownKey(cTop.heap, cTop.dst, cTop.src) => InvalidThrown)
  /\ (cOp = "DefaultOptions" =>
        cOut.err = NoThrow /\ ~UnknownKey(cOut.heap, cTop.dst, cTop.src))

\* C15 amended: the same for every key except the APPEND key of an append
\* directive that meets an array in the destination: such a directive is
\* appended by UserOptions without a check, and DefaultOptions does not add
\* APPEND to the array; UserOptions throws for no other reason.
C15_UnknownOptionThrows ==
  /\ (cOp = "UserOptions" =>
        (InvalidThrown <=> UnknownOption(cTop.heap, cTop.dst, cTop.src)))
  /\ (cOp = "UserOptions" /\ ~InvalidThrown => cOut.err = NoThrow)
  /\ (cOp = "DefaultOptions" =>
        cOut.err = NoThrow /\ ~UnknownOption(cOut.heap, cTop.dst, cTop.src))

C15_Witness ==
  /\ cOp = "UserOptions" /\ InvalidThrown /\ cOut.err.key = "y"
  /\ Get(cTop.heap, cTop.dst.v, "a") # UndefV

\* the pairs of a destination object and a source literal that a merge visits
RECURSIVE MergePoints(_, _, _)
MergePoints(h, dst, src) ==
  {<<dst, src>>} \cup
  UNION {MergePoints(h, Get(h, dst.v, key), Get(h, src.v, key)) :
           key \in {k \in SeqRange(Keys(h, src)) :
                      /\ isObject(h, Get(h, src.v, k)) /\ IsRef(Get(h, dst.v, k))
                      /\ ~IsAppend(h, Get(h, src.v, k), Get(h, dst.v, k))}}

\* the destination array is the same array, extended by the APPEND elements
Appended(h, new, dst, key, dval, sval) ==
  /\ Get(new, dst.v, key) = dval
  /\ Elements(new[dval.v]) = Elements(h[dval.v]) \o Elements(h[Get(h, sval.v, APPEND).v])

\* the destination value is a new array equal to the source array, sharing
\* nothing with it, and the previous array is as it was
ReplacedByCopy(h, new, dst, key, dval, sval) ==
  /\ IsArray(new, Get(new, dst.v, key))
  /\ Get(new, dst.v, key).v > Len(h)
  /\ Deep(new, Get(new, dst.v, key)) = Deep(h, sval)
  /\ Reach(new, Get(new, dst.v, key)) \cap (1..Len(h)) = {}
  /\ new[dval.v] = h[dval.v]

ArrayMerged(h, new, dst, src, key) ==
  IsArray(h, Get(h, dst.v, key)) =>
    /\ (IsDirective(h, Get(h, src.v, key)) =>
          Appended(h, new, dst, key, Get(h, dst.v, key), Get(h, src.v, key)))
    /\ (IsArray(h, Get(h, src.v, key)) =>
          ReplacedByCopy(h, new, dst, key, Get(h, dst.v, key), Get(h, src.v, key)))

\* C16: in a merge that is not aborted by an unknown key, at every key whose
\* destination value is an array: an append directive as source value leaves
\* the destination array the same array, holding its previous elements
\* followed by the APPEND elements in order; a plain array as source value
\* makes the destination value a fresh copy of the source array.  A merge
\* without warnings is never aborted.
C16_AppendDirective ==
  /\ (Merging /\ ~Warning => cOut.err = NoThrow)
  /\ (Merging /\ cOut.err = NoThrow =>
        \A pt \in MergePoints(cTop.heap, cTop.dst, cTop.src) :
          \A key \in SeqRange(Keys(cTop.heap, pt[2])) :
            ArrayMerged(cTop.heap, cOut.heap, pt[1], pt[2], key))

C16_Witness ==
  /\ cOp = "UserOptions" /\ cOut.err = NoThrow
  /\ IsDirective(cTop.heap, Get(cTop.heap, cTop.src.v, "a"))
  /\ IsArray(cTop.heap, Get(cTop.heap, cTop.dst.v, "a"))
  /\ Elements(cTop.heap[Get(cTop.heap, cTop.dst.v, "a").v]) = <<Num(1), Num(2)>>
  /\ Elements(cOut.heap[Get(cOut.heap, cTop.dst.v, "a").v]) = <<Num(1), Num(2), Num(2), Num(1)>>

\* C18: Copy(def) returns a new object with the enumerable own keys of def and
\* equal values at every depth, which shares no array or object with def (nor
\* with anything that existed before), and leaves def as it was.
C18_DeepCopy ==
  cOp = "Copy" =>
    /\ cOut.err = NoThrow
    /\ Deep(cOut.heap, cOut.ret) = Deep(cTop.heap, cTop.src)
    /\ Reach(cOut.heap, cOut.ret) \cap (1..Len(cTop.heap)) = {}
    /\ SubSeq(cOut.heap, 1, Len(cTop.heap)) = cTop.heap

C18_Witness ==
  /\ cOp = "Copy"
  /\ isObject(cTop.heap, Get(cTop.heap, cTop.src.v, "a"))
  /\ IsArray(cTop.heap, Get(cTop.heap, Get(cTop.heap, cTop.src.v, "a").v, "x"))
  /\ Cardinality(Reach(cOut.heap, cOut.ret)) = 3
  /\ Deep(cOut.heap, cOut.ret) = Deep(cTop.heap, cTop.src)

(***************************************************************************)
(* The base rule (BaseItem.checkItem) as reached through the item classes. *)
(***************************************************************************)
\* the reduction of this with item is BaseItem.checkItem and nothing else:
\* the class has no rule of its own or its rule falls through to super
UnderBaseRule(this, item) ==
  CASE this.kind \in {"mml", "stop", "close", "right", "end", "cell"} -> TRUE
    [] this.kind = "start" -> ~isKind(item, "stop")
    [] this.kind = "open" -> ~isKind(item, "close")
    [] this.kind = "left" -> ~isKind(item, "right")
    [] this.kind = "begin" -> ~isKind(item, "end") /\ ~isKind(item, "stop")
    [] this.kind = "over" -> ~isClose(item)
    [] this.kind = "style" -> ~isClose(item)
    [] this.kind = "position" ->
         ~isClose(item) /\ ~(isFinal(item) /\ this.move \in {"vertical", "horizontal"})
    [] OTHER -> FALSE

Absorbed ==
  /\ cOut.tag = "false" /\ cOut.err = NoError
  /\ cOut.this.data = cTop.data \o <<cItem.data[1]>>
  /\ cOut.this = [cTop EXCEPT !.data = cOut.this.data]

\* C21 as stated: under the base rule a non-final incoming item that raises
\* no error returns true and leaves the data of the top item unchanged, and a
\* final incoming item is absorbed (its node appended after the nodes already
\* held, outcome false).
C21_BaseRuleContinue ==
  (Reduced /\ UnderBaseRule(cTop, cItem)) =>
    /\ (~isFinal(cItem) /\ cOut.tag # "error") =>
          (cOut.tag = "true" /\ cOut.this.data = cTop.data)
    /\ isFinal(cItem) => Absorbed

\* C21: under the base rule a final incoming item is absorbed: its node is
\* appended after the nodes already held, which keep their positions, nothing
\* else of the top item changes and the outcome is false.  A non-final item
\* that raises no error returns true and leaves the top item unchanged, except
\* that an over item reaching an isOpen item returns true after taking the
\* item's nodes as its numerator and leaving the item with empty data, and a
\* line-break cell reaching an isOpen item returns false, top item unchanged.
C21_BaseRule ==
  (Reduced /\ UnderBaseRule(cTop, cItem)) =>
    /\ isFinal(cItem) => Absorbed
    /\ (~isFinal(cItem) /\ cOut.tag # "error") =>
          IF isKind(cItem, "over") /\ isOpen(cTop)
          THEN cOut.tag = "true" /\ cOut.this = [cTop EXCEPT !.data = <<>>]
          ELSE IF isKind(cItem, "cell") /\ isOpen(cTop)
          THEN cItem.linebreak /\ cOut.tag = "false" /\ cOut.this = cTop
          ELSE cOut.tag = "true" /\ cOut.this = cTop

C21_Witness ==
  /\ Reduced /\ cTop.kind = "style" /\ Len(cTop.data) = 2 /\ isFinal(cItem)
  /\ cOut.tag = "false" /\ Len(cOut.this.data) = 3
  /\ cOut.this.data[3] = cItem.data[1] /\ cOut.this.data[1] = cTop.data[1]

(***************************************************************************)
(* An over item receiving an item.                                         *)
(***************************************************************************)
\* the fraction of an over item: pending numerator over accumulated nodes
Fraction(this) == [type |-> "mfrac", kids |-> <<this.num, AsOneNode(this.data)>>]

IsFraction(node, this) ==
  /\ node.type = Fraction(this).type
  /\ node.kids = Fraction(this).kids
  /\ HasAttr(node, "linethickness") = (this.thickness # Undefined)
  /\ this.thickness # Undefined => node.attr.linethickness = this.thickness

Delimited(this) == this.open # "" \/ this.close # ""

OverRest ==
  /\ (~isClose(cItem) /\ ~isFinal(cItem)) => (cOut.tag = "true" /\ cOut.this = cTop)
  /\ isFinal(cItem) => Absorbed

\* C22 as stated: an over item receiving a closing item other than over is
\* replaced by an mml item whose node is the fraction of the pending numerator
\* over the accumulated nodes, followed by the closing item; other non-final
\* items return true and a final item is absorbed into the denominator.
C22_OverFraction ==
  (Reduced /\ cTop.kind = "over") =>
    /\ (isClose(cItem) /\ ~isKind(cItem, "over")) =>
          /\ cOut.tag = "list" /\ Len(cOut.list) = 2
          /\ cOut.list[1].kind = "mml" /\ Len(cOut.list[1].data) = 1
          /\ IsFraction(cOut.list[1].data[1], cTop)
          /\ cOut.list[2] = cItem
    /\ OverRest

\* C22: an over item receiving a closing item other than over is replaced by
\* exactly two items: an mml item with one node, followed by the unchanged
\* closing item.  The node is the fraction of the pending numerator over the
\* accumulated nodes (one node as is, otherwise a row), carrying the explicit
\* line thickness if one was set; if an open or close delimiter was set on the
\* over item, the node is instead the fenced group with these delimiters
\* around that fraction, which is marked withDelims.  A non-closing non-final
\* item returns true, a final item is absorbed into the denominator.
C22_OverFractionOrFence ==
  (Reduced /\ cTop.kind = "over") =>
    /\ (isClose(cItem) /\ ~isKind(cItem, "over")) =>
          /\ cOut.tag = "list" /\ Len(cOut.list) = 2
          /\ cOut.list[1].kind = "mml" /\ Len(cOut.list[1].data) = 1
          /\ cOut.list[2] = cItem
          /\ LET node == cOut.list[1].data[1]
             IN IF Delimited(cTop)
                THEN /\ node.type = "mrow" /\ Len(node.kids) = 1
                     /\ node.attr = [open |-> cTop.open, close |-> cTop.close]
                     /\ IsFraction(node.kids[1], cTop)
                     /\ HasAttr(node.kids[1], "withDelims")
                ELSE IsFraction(node, cTop) /\ ~HasAttr(node, "withDelims")
    /\ OverRest

C22_Witness ==
  /\ Reduced /\ cTop.kind = "over" /\ cTop.num = Leaf(3) /\ Len(cTop.data) = 2
  /\ cTop.open = "(" /\ cTop.thickness = "0" /\ cItem.kind = "close"
  /\ cOut.tag = "list" /\ cOut.list[2] = cItem
  /\ cOut.list[1].data[1].type = "mrow"
  /\ cOut.list[1].data[1].kids[1].kids = <<Leaf(3), AsOneNode(cTop.data)>>

(***************************************************************************)
(* An array item receiving a closing item.                                 *)
(***************************************************************************)
LastCell(item) == item.row[Len(item.row)]

\* the pending nodes have become the last cell of the current row
EntryEnded(old, new) ==
  /\ new.data = <<>>
  /\ Len(new.row) = Len(old.row) + 1
  /\ SubSeq(new.row, 1, Len(old.row)) = old.row
  /\ LastCell(new).type = "mtd" /\ LastCell(new).kids = old.data

\* the pending nodes and cells have become the last row of the table
RowEnded(old, new) ==
  /\ new.data = <<>> /\ new.row = <<>>
  /\ Len(new.table) = Len(old.table) + 1
  /\ SubSeq(new.table, 1, Len(old.table)) = old.table
  /\ LastRow(new).type = "mtr"
  /\ Len(LastRow(new).kids) = Len(old.row) + 1
  /\ SubSeq(LastRow(new).kids, 1, Len(old.row)) = old.row
  /\ LastRow(new).kids[Len(old.row) + 1].kids = old.data

\* the table inside its frame, style and fence wrappers
RECURSIVE TableIn(_)
TableIn(node) ==
  IF node.type \in {"menclose", "mstyle", "mrow"} /\ Len(node.kids) = 1
  THEN TableIn(node.kids[1]) ELSE node

\* the item holds the table of the array, with the pending row flushed
IsTableItem(e, old, new) ==
  /\ e.kind = "mml" /\ Len(e.data) = 1
  /\ TableIn(e.data[1]).type = "mtable" /\ TableIn(e.data[1]).kids = new.table
  /\ IF Len(old.data) > 0 \/ Len(old.row) > 0
     THEN Len(new.table) = Len(old.table) + 1 ELSE new.table = old.table

\* C23: an array item receiving a closing item other than over: an entry
\* break ends the current entry only and a row break ends the entry and the
\* row, both returning false with the array kept; any other closing item ends
\* the table: with requireClose a close item is consumed and the table's mml
\* item alone is returned while any other closer raises MissingCloseBrace,
\* without requireClose the table's mml item is returned followed by the
\* closing item.
C23_ArrayClosers ==
  (Reduced /\ cTop.kind = "array" /\ isClose(cItem) /\ ~isKind(cItem, "over")) =>
    IF cItem.isEntry
    THEN /\ cOut.tag = "false" /\ cOut.list = <<>>
         /\ EntryEnded(cTop, cOut.this) /\ cOut.this.table = cTop.table
    ELSE IF cItem.isCR
    THEN cOut.tag = "false" /\ cOut.list = <<>> /\ RowEnded(cTop, cOut.this)
    ELSE IF cTop.requireClose
    THEN IF isKind(cItem, "close")
         THEN /\ cOut.tag = "item" /\ Len(cOut.list) = 1
              /\ IsTableItem(cOut.list[1], cTop, cOut.this)
         ELSE Raises("MissingCloseBrace", <<>>) /\ cOut.list = <<>>
    ELSE /\ cOut.tag = "list" /\ Len(cOut.list) = 2
         /\ IsTableItem(cOut.list[1], cTop, cOut.this)
         /\ cOut.list[2] = cItem

C23_Witness ==
  /\ Reduced /\ cTop.kind = "array" /\ cTop.requireClose
  /\ Len(cTop.data) = 1 /\ Len(cTop.row) = 1 /\ isKind(cItem, "close")
  /\ cOut.tag = "item" /\ TableIn(cOut.list[1].data[1]).type = "mtable"
  /\ Len(TableIn(cOut.list[1].data[1]).kids) = 1
  /\ Len(TableIn(cOut.list[1].data[1]).kids[1].kids) = 2

(***************************************************************************)
(* A position item receiving an item.                                      *)
(***************************************************************************)
\* the item holds exactly the given node
HoldsNode(e, node) == e.kind = "mml" /\ e.data = <<node>>

\* C24: with a position item on top, every closing item raises MissingBoxFor
\* with the name of the directive; a final item replaces a vertical position
\* item by exactly one mml item, the padded node (height, depth, voffset from
\* the directive) around the incoming node, and a horizontal one by exactly
\* three items, the left filler, the incoming item and the right filler; a
\* non-closing non-final item returns true.
C24_Position ==
  (Reduced /\ cTop.kind = "position") =>
    IF isClose(cItem) THEN Raises("MissingBoxFor", <<cTop.name>>) /\ cOut.list = <<>>
    ELSE IF isFinal(cItem) /\ cTop.move = "vertical"
    THEN /\ cOut.tag = "list" /\ Len(cOut.list) = 1
         /\ cOut.list[1].kind = "mml" /\ Len(cOut.list[1].data) = 1
         /\ cOut.list[1].data[1].type = "mpadded"
         /\ cOut.list[1].data[1].kids = cItem.data
         /\ cOut.list[1].data[1].attr =
              [height |-> cTop.dh, depth |-> cTop.dd, voffset |-> cTop.dh]
    ELSE IF isFinal(cItem) /\ cTop.move = "horizontal"
    THEN /\ cOut.tag = "list" /\ Len(cOut.list) = 3
         /\ HoldsNode(cOut.list[1], cTop.left)
         /\ cOut.list[2] = cItem
         /\ HoldsNode(cOut.list[3], cTop.right)
    ELSE cOut.tag = "true" /\ cOut.this = cTop /\ cOut.item = cItem

C24_Witness ==
  /\ Reduced /\ cTop.kind = "position" /\ cTop.move = "horizontal" /\ isFinal(cItem)
  /\ cTop.left # cTop.right
  /\ cOut.tag = "list" /\ Len(cOut.list) = 3 /\ cOut.list[2] = cItem
  /\ cOut.list[1].data = <<cTop.left>> /\ cOut.list[3].data = <<cTop.right>>

(***************************************************************************)
(* A prime item receiving an item.                                         *)
(***************************************************************************)
\* C25: the reduction of a prime item never raises and never returns true or
\* false: for every incoming item it returns exactly two entries, one script
\* node followed by the unchanged incoming item.  If the base is not a
\* combined script node, the script node is a new superscript node over base
\* and prime; otherwise it is the base itself, its base and subscript slots as
\* they were and the prime written into its superscript slot.
C25_Prime ==
  (Reduced /\ cTop.kind = "prime") =>
    /\ cOut.tag = "list" /\ cOut.err = NoError
    /\ Len(cOut.list) = 2 /\ cOut.list[2] = cItem /\ cOut.item = cItem
    /\ IsNode(cOut.list[1])
    /\ IF cTop.data[1].type # "msubsup"
       THEN /\ cOut.list[1].type = "msup" /\ cOut.list[1].kids = cTop.data
            /\ cOut.this = cTop
       ELSE /\ cOut.list[1].type = "msubsup"
            /\ cOut.list[1].attr = cTop.data[1].attr
            /\ cOut.list[1].kids =
                 <<cTop.data[1].kids[1], cTop.data[1].kids[2], cTop.data[2]>>
            /\ cOut.this.data[1] = cOut.list[1]

C25_Witness ==
  /\ Reduced /\ cTop.kind = "prime" /\ cTop.data[1].type = "msubsup"
  /\ cTop.data[1].kids[2] # Undef /\ isClose(cItem)
  /\ cOut.tag = "list" /\ cOut.list[1].type = "msubsup"
  /\ cOut.list[1].kids[3] = cTop.data[2] /\ cOut.list[1].kids[2] = cTop.data[1].kids[2]

(***************************************************************************)
(* The stack driver step by step.  A pushed item is put on the queue; one  *)
(* step presents the head of the queue to the reduction rule of the top    *)
(* item.  queue holds what is still to be presented for the current push.  *)
(***************************************************************************)
\* the items offered to the driver, each with the tag recorded for it
Offered(id) ==
  {[item |-> BaseItem(k), tag |-> k] : k \in {"start", "stop", "open", "close", "over", "not"}}
  \cup {[item |-> NewMml(t, id), tag |-> "mml"] : t \in Tokens}
  \cup {[item |-> NewPosition(mv, id), tag |-> "position"] : mv \in {"vertical", "horizontal"}}
  \cup {[item |-> NewStyle, tag |-> "style"], [item |-> NewFn(id), tag |-> "fn"],
        [item |-> NewPrime(Leaf(id), id), tag |-> "prime"],
        [item |-> NewDots(id), tag |-> "dots"], [item |-> NewSubsup(2, id), tag |-> "subsup"],
        [item |-> NewArray(FALSE, FALSE, <<>>), tag |-> "array"],
        [item |-> NewCell("isCR"), tag |-> "isCR"]}

\* the parser pushes an item: it waits on the queue
Offer ==
  /\ status = "run" /\ queue = <<>>
  /\ Len(input) < MaxOffer
  /\ \E o \in Offered(NextId) :
       /\ (Len(input) = 0) = (o.item.kind = "start")
       /\ queue' = <<o.item>>
       /\ input' = Append(input, o.tag)
  /\ UNCHANGED <<stack, err, status, cvars>>

\* the reduction the next step makes: head of the queue against the top item
Presented == AsItem(Head(queue))

Outcome1 == checkItem(stack[Len(stack)], Presented)

Reducing == status = "run" /\ queue # <<>> /\ Head(queue) # Undef /\ stack # <<>>

StatusAfter(q) == IF q = <<>> /\ Last(input) = "stop" THEN "done" ELSE "run"

\* a replacement that leaves the replaced item on the stack
StepReplaceKeepsTop ==
  /\ Reducing /\ Outcome1.tag \in {"list", "item"}
  /\ stack' = stack
  /\ queue' = Outcome1.list \o Tail(queue)
  /\ UNCHANGED <<err, status, input, cvars>>

\* the top item is replaced: it is removed, and what it returned is
\* presented, in order, before the rest of the queue
StepReplace ==
  /\ Reducing /\ Outcome1.tag \in {"list", "item"}
  /\ stack' = Pop(stack)
  /\ queue' = Outcome1.list \o Tail(queue)
  /\ UNCHANGED <<err, status, input, cvars>>

\* the reduction raises: the parse is aborted
StepError ==
  /\ Reducing /\ Outcome1.tag = "error"
  /\ err' = Outcome1.err /\ status' = "error" /\ queue' = <<>>
  /\ UNCHANGED <<stack, input, cvars>>

\* the item is put on the stack (true, or an empty stack), absorbed or
\* discarded (false, nothing returned), or an undefined entry is skipped
StepKeep ==
  /\ status = "run" /\ queue # <<>>
  /\ Reducing => Outcome1.tag \notin {"list", "item", "error"}
  /\ stack' = IF Head(queue) = Undef THEN stack
              ELSE IF stack = <<>> THEN <<Presented>>
              ELSE IF Outcome1.tag = "true"
              THEN Append(ReplaceTop(stack, Outcome1.this), Outcome1.item)
              ELSE ReplaceTop(stack, Outcome1.this)
  /\ queue' = Tail(queue)
  /\ status' = StatusAfter(Tail(queue))
  /\ UNCHANGED <<err, input, cvars>>

Step == StepReplace \/ StepError \/ StepKeep

NextSteps == Offer \/ StepReplace \/ StepError \/ StepKeep

\* the driver runs a push to its end before it returns to the parser
SpecSteps == Init /\ [][NextSteps]_vars /\ WF_vars(Step)

(***************************************************************************)
(* Termination of a push.                                                  *)
(***************************************************************************)
\* what an entry of the queue can still cost: a node or final item is
\* absorbed or replaces one item, any other item may be put on the stack
Weight(e) == IF IsNode(e) \/ isFinal(e) THEN 1 ELSE 4

RECURSIVE QueueWeight(_)
QueueWeight(q) == IF q = <<>> THEN 0 ELSE Weight(Head(q)) + QueueWeight(Tail(q))

\* the variant of the driver's loop
Measure(st, q) == 3 * Len(st) + (IF st = <<>> THEN 3 ELSE 0) + QueueWeight(q)

\* the entries of list that are neither nodes nor final items
NonFinal(list) == {i \in 1..Len(list) : ~IsNode(list[i]) /\ ~isFinal(list[i])}

\* a replacement removes the top item and returns only nodes or final items
\* plus, at most once, the incoming item
ReplacementShrinks ==
  StepReplace =>
    /\ Len(stack') = Len(stack) - 1
    /\ Cardinality(NonFinal(Outcome1.list)) <= 1
    /\ \A i \in NonFinal(Outcome1.list) : Outcome1.list[i] = Presented

\* where the push in progress ends: the stack and error PushAll computes
EndOfPush(st, q, e) == IF e # NoError THEN [stack |-> st, err |-> e] ELSE PushAll(st, q)

\* every step of the driver lowers the variant, and steps as PushAll does
StepDecreases ==
  Step => /\ Measure(stack', queue') < Measure(stack, queue)
          /\ EndOfPush(stack', queue', err') = EndOfPush(stack, queue, err)

Returned == queue = <<>>

\* C26: every push terminates: the queue of a push is emptied after finitely
\* many reductions, because each replacement removes the top item and
\* re-presents only nodes or final items plus at most once the incoming item,
\* so the stack height drops with every replacement and every step lowers a
\* variant; once stop has been processed the parse has a tree or an error.
C26_Terminates ==
  /\ [](~Returned => <>Returned)
  /\ [][ReplacementShrinks /\ StepDecreases]_vars
  /\ []((Returned /\ input # <<>> /\ Last(input) = "stop") =>
          (status = "error" \/ (status = "done" /\ IsTree(stack))))

\* a push whose item went through three replacements in a row
C26_Witness ==
  /\ Returned /\ status = "done" /\ IsTree(stack)
  /\ input = <<"start", "style", "style", "stop">>

(***************************************************************************)
(* AbstractInputJax: instances constructed from the static OPTIONS of the  *)
(* class and the user's option lists, and later changes to their options.  *)
(* cTop is the world: the heap, OPTIONS, the option lists the user holds,  *)
(* the options of the instances made so far, the number of constructor     *)
(* calls and the number of changes.                                        *)
(***************************************************************************)
\* this.options = UserOptions(DefaultOptions({}, CLASS.OPTIONS), options)
JaxUserOptions(r, options, user) ==
  IF r.err # NoThrow THEN r ELSE UserOptions(r.heap, options, <<user>>)

\* the constructor merging the user's options into OPTIONS itself
AbstractInputJaxNoCopy(h, OPTIONS, user) == UserOptions(h, OPTIONS, <<user>>)

AbstractInputJax(h, OPTIONS, user) ==
  JaxUserOptions(DefaultOptions(Append(h, Cell("obj", <<>>)), Ref(Len(h) + 1), <<OPTIONS>>),
                 Ref(Len(h) + 1), user)

ObjX(n) == TObj(<<Entry("x", Num(n))>>)

\* static OPTIONS of a class: arrays of scalars and of literals, nested literals
ClassOptions ==
  {TObj(<<Entry("a", TArr(<<Num(1)>>)), Entry("b", ObjX(1))>>),
   TObj(<<Entry("a", TArr(<<ObjX(1)>>)), Entry("b", Num(1))>>)}

\* the option lists a user passes to the constructor
UserOptionLists ==
  {TObj(<<>>),
   TObj(<<Entry("b", Num(2))>>),
   TObj(<<Entry("b", ObjX(2))>>),
   TObj(<<Entry("a", TArr(<<Num(2)>>))>>),
   TObj(<<Entry("a", TArr(<<ObjX(2)>>))>>),
   TObj(<<Entry("a", TObj(<<Entry(APPEND, TArr(<<Num(2)>>))>>))>>),
   TObj(<<Entry("a", TObj(<<Entry(APPEND, TArr(<<ObjX(2)>>))>>))>>),
   TObj(<<Entry("c", Num(2))>>)}

World(c, u1, u2) ==
  [heap |-> u2.heap, OPTIONS |-> c.ret, users |-> <<u1.ret, u2.ret>>, insts |-> <<>>,
   calls |-> 0, edits |-> 0]

Worlds ==
  {World(Build(<<>>, c), Build(Build(<<>>, c).heap, u1),
         Build(Build(Build(<<>>, c).heap, u1).heap, u2)) :
     c \in ClassOptions, u1 \in UserOptionLists, u2 \in UserOptionLists}

InitJax ==
  /\ PInit
  /\ cTop \in Worlds
  /\ cItem = NoItem
  /\ cOut = NoItem
  /\ cOp = "init"

\* the world after a constructor call: a throwing call leaves no instance
Constructed(r) ==
  [cTop EXCEPT !.heap = r.heap, !.calls = cTop.calls + 1,
               !.insts = IF r.err = NoThrow THEN Append(cTop.insts, r.ret) ELSE cTop.insts]

\* new CLASS(options) with one of the user's option lists
NewJax ==
  /\ cTop.calls < MaxJax /\ cTop.edits = 0
  /\ \E u \in 1..Len(cTop.users) :
       /\ cTop' = Constructed(AbstractInputJax(cTop.heap, cTop.OPTIONS, cTop.users[u]))
       /\ cOut' = [op |-> "new", user |-> u, inst |-> Len(cTop.insts) + 1, at |-> 0,
                   err |-> AbstractInputJax(cTop.heap, cTop.OPTIONS, cTop.users[u]).err]
  /\ cOp' = "new"
  /\ UNCHANGED <<cItem, pvars>>

\* a change to an array or literal of an instance's options: a scalar is
\* pushed onto the array, or stored in the literal under x
Edited(h, a) ==
  IF h[a].kind = "arr" THEN ArrayPush(h, a, <<Num(9)>>) ELSE Set(h, a, "x", Num(9))

EditOptions ==
  /\ cTop.edits < MaxEdits
  /\ \E i \in 1..Len(cTop.insts) : \E a \in Reach(cTop.heap, cTop.insts[i]) :
       /\ cTop' = [cTop EXCEPT !.heap = Edited(cTop.heap, a), !.edits = cTop.edits + 1]
       /\ cOut' = [op |-> "edit", user |-> 0, inst |-> i, at |-> a, err |-> NoThrow]
  /\ cOp' = "edit"
  /\ UNCHANGED <<cItem, pvars>>

NextJax == NewJax \/ EditOptions

SpecJax == InitJax /\ [][NextJax]_vars

(***************************************************************************)
(* Frame properties of the constructor (SpecJax).                          *)
(***************************************************************************)
\* the arrays and literals of the option lists the user holds
UserObjects(w) == UNION {Reach(w.heap, w.users[u]) : u \in 1..Len(w.users)}

SameValue(w1, w2, val) == Deep(w2.heap, val) = Deep(w1.heap, val)

\* OPTIONS and everything it leads to is as it was before the step
OptionsUnchanged ==
  /\ SameValue(cTop, cTop', cTop.OPTIONS)
  /\ \A a \in Reach(cTop.heap, cTop.OPTIONS) : cTop'.heap[a] = cTop.heap[a]

\* the instances other than the one the step changes are as they were
OthersUnchanged ==
  \A j \in 1..Len(cTop.insts) :
    (cOp' = "edit" /\ cOut'.inst = j) \/ SameValue(cTop, cTop', cTop.insts[j])

UserKeys(w, u) == SeqRange(Keys(w.heap, w.users[u]))

\* the options of a new instance: nothing shared with OPTIONS, the options
\* the user did not give equal to those of OPTIONS, scalars the user gave
\* stored as given
DeepCopyOverlaid(w, inst, u) ==
  /\ Reach(w.heap, inst) \cap Reach(w.heap, w.OPTIONS) = {}
  /\ SeqRange(Keys(w.heap, inst)) = SeqRange(Keys(w.heap, w.OPTIONS))
  /\ \A k \in SeqRange(Keys(w.heap, w.OPTIONS)) :
       IF k \notin UserKeys(w, u)
       THEN Deep(w.heap, Get(w.heap, inst.v, k)) = Deep(w.heap, Get(w.heap, w.OPTIONS.v, k))
       ELSE ~IsRef(Get(w.heap, w.users[u].v, k)) =>
               Get(w.heap, inst.v, k) = Get(w.heap, w.users[u].v, k)

Created == cOp' = "new" /\ cOut'.err = NoThrow

NewIsCopy == Created => DeepCopyOverlaid(cTop', Last(cTop'.insts), cOut'.user)

EditsUserObject == cOp' = "edit" /\ cOut'.at \in UserObjects(cTop)

\* two instances share only objects the user's option lists lead to
SharedOnlyWithUser ==
  \A i, j \in 1..Len(cTop.insts) :
    i # j => (Reach(cTop.heap, cTop.insts[i]) \cap Reach(cTop.heap, cTop.insts[j]))
               \subseteq UserObjects(cTop)

\* the arrays of an instance's options are its own
OwnArrays ==
  \A i \in 1..Len(cTop.insts) : \A a \in Reach(cTop.heap, cTop.insts[i]) :
    cTop.heap[a].kind = "arr" => a \notin UserObjects(cTop)

KnownOptions ==
  {TObj(<<Entry("a", Num(1)), Entry("b", TArr(<<Num(1)>>)),
          Entry("n", TObj(<<Entry("x", Num(1)), Entry("y", Num(1))>>))>>),
   TObj(<<Entry("a", Num(1)), Entry("b", TArr(<<>>)),
          Entry("n", TObj(<<Entry("y", Num(1)), Entry("x", Num(1))>>))>>)}

\* the sources: known options, the unknown options c and 0, and nested
\* lists with the unknown option z, in several key orders
MergeSources ==
  {TObj(<<>>),
   TObj(<<Entry("a", Num(2))>>),
   TObj(<<Entry("b", TArr(<<Num(2)>>)), Entry("a", Num(3))>>),
   TObj(<<Entry("a", Num(2)), Entry("c", Num(3)), Entry("b", TArr(<<Num(2)>>))>>),
   TObj(<<Entry("b", TObj(<<Entry(APPEND, TArr(<<Num(2)>>))>>)), Entry("n", ObjX(2))>>),
   TObj(<<Entry("a", Num(2)),
          Entry("n", TObj(<<Entry("x", Num(2)), Entry("z", Num(3)), Entry("y", Num(4))>>)),
          Entry("b", TArr(<<Num(2)>>))>>),
   TObj(<<Entry("n", TObj(<<Entry("z", Num(3))>>)), Entry("a", Num(2))>>),
   TObj(<<Entry("a", Num(2)), Entry("0", Num(4))>>)}

RECURSIVE BuildAll(_, _, _)
\* the heap with every term of the list added, and the values of the terms
BuildAll(h, terms, refs) ==
  IF Len(terms) = 0 THEN [heap |-> h, refs |-> refs]
  ELSE BuildAll(Build(h, Head(terms)).heap, Tail(terms),
                Append(refs, Build(h, Head(terms)).ret))

MergeState(d, s) == [heap |-> s.heap, dst |-> d.ret, defs |-> s.refs]

MergeStates ==
  {MergeState(Build(<<>>, d), BuildAll(Build(<<>>, d).heap, defs, <<>>)) :
     d \in KnownOptions, defs \in UNION {[1..m -> MergeSources] : m \in 1..MaxDefs}}

InitMerge ==
  /\ PInit
  /\ cTop \in MergeStates
  /\ cItem = NoItem
  /\ cOut = NoItem
  /\ cOp = "init"

\* UserOptions(dst, ...defs)
DoUserOptionsAll == Call("UserOptionsAll", UserOptions(cTop.heap, cTop.dst, cTop.defs))

SpecMerge == InitMerge /\ [][DoUserOptionsAll]_vars

(***************************************************************************)
(* Where a merge with warnings is refused, and what has been merged then.  *)
(***************************************************************************)
Min0(S) == IF S = {} THEN 0 ELSE CHOOSE i \in S : \A j \in S : i <= j

KeyAt(h, obj, i) == Keys(h, obj)[i]

ValueAt(h, obj, i) == Get(h, obj.v, KeyAt(h, obj, i))

\* the keys of a nested source list that its destination list does not know
BadNested(h, dval, sval) ==
  IF isObject(h, sval) /\ isObject(h, dval)
  THEN {q \in 1..Len(Keys(h, sval)) : Get(h, dval.v, KeyAt(h, sval, q)) = UndefV}
  ELSE {}

\* the keys of a source that are refused, at top level or in a nested list
BadKeys(h, dst, src) ==
  {p \in 1..Len(Keys(h, src)) :
     \/ Get(h, dst.v, KeyAt(h, src, p)) = UndefV
     \/ BadNested(h, Get(h, dst.v, KeyAt(h, src, p)), ValueAt(h, src, p)) # {}}

BadDefs(w) == {d \in 1..Len(w.defs) : BadKeys(w.heap, w.dst, w.defs[d]) # {}}

\* the first source with a refused key, the position of that key, and the key
BadDef(w) == w.defs[Min0(BadDefs(w))]

BadPos(w) == Min0(BadKeys(w.heap, w.dst, BadDef(w)))

BadIsNested(w) == Get(w.heap, w.dst.v, KeyAt(w.heap, BadDef(w), BadPos(w))) # UndefV

BadNestedPos(w) ==
  Min0(BadNested(w.heap, Get(w.heap, w.dst.v, KeyAt(w.heap, BadDef(w), BadPos(w))),
                 ValueAt(w.heap, BadDef(w), BadPos(w))))

OffendingKey(w) ==
  IF BadIsNested(w) THEN KeyAt(w.heap, ValueAt(w.heap, BadDef(w), BadPos(w)), BadNestedPos(w))
  ELSE KeyAt(w.heap, BadDef(w), BadPos(w))

\* the first n properties of an object, in key order
PropsBefore(h, obj, n) == [i \in 1..n |-> Prop(KeyAt(h, obj, i), ValueAt(h, obj, i))]

\* the part of the refused source that precedes the offending key: the keys
\* before it and, if it is in a nested list, that list up to the key
NestedPrefix(w) ==
  IF BadIsNested(w)
  THEN Cell("obj", PropsBefore(w.heap, ValueAt(w.heap, BadDef(w), BadPos(w)), BadNestedPos(w) - 1))
  ELSE Cell("obj", <<>>)

TopPrefix(w) ==
  Cell("obj", PropsBefore(w.heap, BadDef(w), BadPos(w) - 1)
              \o (IF BadIsNested(w)
                  THEN <<Prop(KeyAt(w.heap, BadDef(w), BadPos(w)), Ref(Len(w.heap) + 1))>>
                  ELSE <<>>))

\* the merge of everything that precedes the offending key
MergedBefore(w) ==
  UserOptions(w.heap \o <<NestedPrefix(w), TopPrefix(w)>>, w.dst,
              SubSeq(w.defs, 1, Min0(BadDefs(w)) - 1) \o <<Ref(Len(w.heap) + 2)>>)

\* the scalars of the refused source before the offending key are stored
ScalarsBeforeStored(w, h) ==
  \A i \in 1..(BadPos(w) - 1) :
    ~IsRef(ValueAt(w.heap, BadDef(w), i)) =>
       Get(h, w.dst.v, KeyAt(w.heap, BadDef(w), i)) = ValueAt(w.heap, BadDef(w), i)

\* C28: UserOptions throws exactly when a source holds a key the
\* destination does not know, for the first such key in source and key order,
\* and the destination then holds the merge of every earlier source and of
\* every key of that source before the offending key, and nothing of the
\* keys and sources after it.
C28_NotAtomic ==
  cOp = "UserOptionsAll" =>
    IF BadDefs(cTop) = {} THEN cOut.err = NoThrow
    ELSE /\ cOut.err = InvalidOption(OffendingKey(cTop))
         /\ MergedBefore(cTop).err = NoThrow
         /\ Deep(cOut.heap, cTop.dst) = Deep(MergedBefore(cTop).heap, cTop.dst)
         /\ ScalarsBeforeStored(cTop, cOut.heap)

\* the second source is refused at a nested key after the first source and
\* the keys before the offending one have changed the destination
C28_Witness ==
  /\ cOp = "UserOptionsAll" /\ cOut.err = InvalidOption("z")
  /\ Len(cTop.defs) = 2 /\ Min0(BadDefs(cTop)) = 2 /\ BadPos(cTop) = 2 /\ BadNestedPos(cTop) = 2
  /\ Get(cOut.heap, cTop.dst.v, "a") = Num(2)
  /\ Get(cOut.heap, Get(cOut.heap, cTop.dst.v, "n").v, "x") = Num(2)
  /\ Get(cOut.heap, Get(cOut.heap, cTop.dst.v, "n").v, "y") = Num(1)
  /\ ArrayLength(cOut.heap[Get(cOut.heap, cTop.dst.v, "b").v]) = 2
  /\ Deep(cOut.heap, cTop.dst) # Deep(cTop.heap, cTop.dst)

====
